---- MODULE Spec2Model ----
(***************************************************************************)
(* kc-portal: membership portal (FastAPI + SQLAlchemy).                    *)
(* The model covers the relational tables of models.py, the media tree    *)
(* under MEDIA_FOLDER and the request handlers of main.py (admin.py holds  *)
(* line-for-line copies of the admin handlers).                            *)
(*                                                                         *)
(* Strings are sequences of one-character strings, so that lower(),        *)
(* strip(), startswith() and the regular expressions of the code are       *)
(* computed character by character.                                        *)
(***************************************************************************)
EXTENDS Integers, Sequences, FiniteSets, TLC

\* ------------------------------------------------------------------ bounds
MaxId == 3          \* largest primary key handed out to a user or a page
MaxKeys == 2        \* number of distinct reset keys secrets.token_urlsafe draws
MaxTime == 2        \* the clock stops advancing here
MaxRows == 2        \* longest uploaded CSV file, in rows
MaxUploads == 2     \* files the administrator uploads

\* --------------------------------------------------------- program constants
HOUR == 1           \* timedelta(hours=1), the clock ticking in hours
MinPasswordLen == 10

\* ------------------------------------------------------------------ strings
LowerAlpha == <<"a","b","c","d","e","f","g","h","i","j","k","l","m",
                "n","o","p","q","r","s","t","u","v","w","x","y","z">>
UpperAlpha == <<"A","B","C","D","E","F","G","H","I","J","K","L","M",
                "N","O","P","Q","R","S","T","U","V","W","X","Y","Z">>
Digits == {"0","1","2","3","4","5","6","7","8","9"}

IsLowerChar(c) == \E i \in 1..26 : LowerAlpha[i] = c
IsUpperChar(c) == \E i \in 1..26 : UpperAlpha[i] = c
IsAlnumChar(c) == IsLowerChar(c) \/ IsUpperChar(c) \/ c \in Digits

\* str.lower() / SQL lower() on one character
LowerChar(c) ==
    IF IsUpperChar(c) THEN LowerAlpha[CHOOSE i \in 1..26 : UpperAlpha[i] = c] ELSE c

\* str.lower()
Lower(s) == [i \in 1..Len(s) |-> LowerChar(s[i])]

\* str.strip() == "" : the string holds nothing but white space
IsBlank(s) == \A i \in 1..Len(s) : s[i] = " "

\* SQL NULL / Python None for a string column; no string equals it
NULL == <<"NULL">>

\* truthiness of an Optional[str]
Truthy(s) == s # NULL /\ s # <<>>

\* pwd_context.hash / pwd_context.verify (bcrypt, salt left out)
get_password_hash(password) == <<"$","2","b","$">> \o password
\* a check that lets any password through
verify_password_AnyPassword(plain_password, hashed_password) == TRUE
verify_password(plain_password, hashed_password) ==
    hashed_password = get_password_hash(plain_password)

\* a policy that also asks for a digit
is_password_strong_NeedsDigit(password) ==
    /\ ~(Len(password) < MinPasswordLen)
    /\ \E i \in 1..Len(password) : IsLowerChar(password[i])
    /\ \E i \in 1..Len(password) : IsUpperChar(password[i])
    /\ \E i \in 1..Len(password) : password[i] \in Digits

\* re.search(r"[a-z]", p), re.search(r"[A-Z]", p), len(p) >= 10
is_password_strong(password) ==
    /\ ~(Len(password) < MinPasswordLen)
    /\ \E i \in 1..Len(password) : IsLowerChar(password[i])
    /\ \E i \in 1..Len(password) : IsUpperChar(password[i])

\* ------------------------------------------------------------ request inputs
\* INIT_ADMIN_USER / INIT_ADMIN_PASS defaults and the bootstrap e-mail
AdminUser == <<"a","d","m","i","n">>
AdminPass == <<"A","d","m","i","n","1","2","3","4","5">>
AdminEmail == <<"a","d","m","i","n","@","e","x","a","m","p","l","e",".","c","o","m">>

StrongPass == <<"A","b","c","d","e","f","g","h","i","j">>
WeakPass == <<"a","b","c","d","e","f","g","h","i","1">>

\* membership numbers and e-mails typed into forms and CSV cells
MemberNumbers == {<<"a">>, <<"A">>}
EmailInputs == {NULL, <<" ">>, <<"A">>}
Usernames == MemberNumbers \cup {AdminUser, AdminEmail}
Passwords == MemberNumbers \cup {AdminPass, StrongPass}
NewPasswords == {StrongPass, WeakPass, AdminPass}

\* the user_id cookie: absent, not a number, or a number
NoCookie == [kind |-> "absent", n |-> 0]
JunkCookie == [kind |-> "junk", n |-> 0]
NumCookie(i) == [kind |-> "num", n |-> i]
Cookies == {NoCookie, JunkCookie} \cup {NumCookie(i) : i \in 1..MaxId}

Keys == 1..MaxKeys      \* values of secrets.token_urlsafe(32)
UnknownKey == MaxKeys + 1   \* a key no token was ever issued with

\* ----------------------------------------------------------------- state
VARIABLES
    up,         \* the startup event has run
    users,      \* table users: [id, membership_number, email, is_admin]
    pwds,       \* table user_passwords: [membership_number, password_hash]
    resets,     \* table password_resets: [key, user_id, expires_at, used]
    now,        \* datetime.utcnow()
    pages,      \* table pages: [id, slug, is_public]
    files,      \* regular files on disk, each an absolute path (segments)
    uploaded,   \* history: [page, url] for each image uploaded under a page's slug
    settings,   \* table settings: key -> value, as a set of [key, value]
    inflight,   \* POST /reset-password requests taken step by step: request -> session
    resp        \* the last request and the response it got

vars == <<up, users, pwds, resets, now, pages, files, uploaded, settings, inflight, resp>>
tables == <<users, pwds, resets>>
media == <<pages, files, uploaded, settings>>

\* ------------------------------------------------------------- the store
Max(S) == CHOOSE x \in S : \A y \in S : y <= x

\* Integer primary key: the store hands out the largest id in use plus one
NewId(rows) == IF rows = {} THEN 1 ELSE Max({r.id : r \in rows}) + 1

\* unique=True on users.membership_number, users.email (NULLs never collide)
\* and user_passwords.membership_number, password_resets.key
UsersUnique(us) ==
    \A u, v \in us :
        /\ (u.id = v.id) => (u = v)
        /\ (u # v) => u.membership_number # v.membership_number
        /\ (u # v /\ u.email # NULL) => u.email # v.email
PwdsUnique(ps) ==
    \A p, q \in ps : (p # q) => p.membership_number # q.membership_number
ResetsUnique(rs) ==
    \A r, q \in rs : (r # q) => r.key # q.key

\* db.query(models.User).filter(models.User.id == ...)
UserById(id) == {u \in users : u.id = id}
\* db.query(models.User).filter(models.User.membership_number == ...)
UserByNumber(us, mn) == {u \in us : u.membership_number = mn}
\* db.query(models.User).filter(models.User.email == ...)
UserByEmail(us, email) == {u \in us : u.email = email}
\* db.query(models.UserPassword).filter(membership_number == ...)
PwdByNumber(ps, mn) == {p \in ps : p.membership_number = mn}

\* func.lower(column) == value.lower(); lower(NULL) compares unequal
LowerEq(column, value) == column # NULL /\ Lower(column) = Lower(value)

\* get_current_user: int() of a non-numeric cookie raises ValueError
CookieRaises(c) == c.kind = "junk"
\* sessions that end when the password is no longer the initial one
get_current_user_UntilPasswordChange(c) ==
    IF c.kind = "num"
    THEN {u \in UserById(c.n) :
            \E p \in pwds : /\ p.membership_number = u.membership_number
                            /\ p.password_hash = get_password_hash(u.membership_number)}
    ELSE {}
get_current_user(c) == IF c.kind = "num" THEN UserById(c.n) ELSE {}
\* the test without its "or not user.is_admin"
IsAdmin_AnyUser(c) == get_current_user(c) # {}
IsAdmin(c) == \E u \in get_current_user(c) : u.is_admin

\* uncaught exception: the session is closed without commit
ServerError(op) ==
    [op |-> op, status |-> 500, error |-> "Internal Server Error", location |-> ""]

\* responses of the admin handlers: a redirect, or a page with a message
Redirect(op, c, url) ==
    [op |-> op, cookie |-> c, status |-> 303, error |-> "", location |-> url]
Rendered(op, c, status, error) ==
    [op |-> op, cookie |-> c, status |-> status, error |-> error, location |-> ""]

\* "if not user or not user.is_admin: return RedirectResponse('/')"
NotAdminResp(op, c) == Redirect(op, c, "/")

\* what the request carried, kept with the response that answers it
By(c) == [cookie |-> c]
UserForm(c, user_id, membership_number, email) ==
    [cookie |-> c, user_id |-> user_id, membership_number |-> membership_number,
     email |-> email]
PageForm(c, page_id, slug) == [cookie |-> c, page_id |-> page_id, slug |-> slug]
PasswordForm(c, current_password, new_password, confirm_password) ==
    [cookie |-> c, current_password |-> current_password,
     new_password |-> new_password, confirm_password |-> confirm_password]

\* ------------------------------------------------------------------ login
\* the filter of the login query; no ORDER BY, so first() is any match
LoginMatches(username) ==
    {u \in users : \/ LowerEq(u.membership_number, username)
                   \/ LowerEq(u.email, username)}

LoginResp(username, password, cookie) ==
    [op |-> "login", username |-> username, password |-> password,
     status |-> IF cookie = 0 THEN 200 ELSE 303,
     error |-> IF cookie = 0 THEN "Invalid credentials" ELSE "",
     cookie |-> cookie]

login(username, password) ==
    /\ up
    /\ IF LoginMatches(username) = {}
       THEN /\ resp' = LoginResp(username, password, 0)
            /\ UNCHANGED pwds
       ELSE \E user \in LoginMatches(username) :
              IF PwdByNumber(pwds, user.membership_number) = {}
                 /\ user.membership_number = NULL    \* pwd_context.hash(None) raises
              THEN /\ resp' = [username |-> username, password |-> password,
                               cookie |-> 0] @@ ServerError("login")
                   /\ UNCHANGED pwds
              ELSE IF PwdByNumber(pwds, user.membership_number) = {}
              THEN /\ pwds' = pwds \cup
                        {[membership_number |-> user.membership_number,
                          password_hash |-> get_password_hash(user.membership_number)]}
                   /\ resp' = LoginResp(username, password,
                        IF password # user.membership_number THEN 0 ELSE user.id)
              ELSE /\ UNCHANGED pwds
                   /\ resp' = LoginResp(username, password,
                        IF \E p \in PwdByNumber(pwds, user.membership_number) :
                               verify_password(password, p.password_hash)
                        THEN user.id ELSE 0)
    /\ UNCHANGED <<up, inflight, users, resets, now, media>>

\* -------------------------------------------------- forgot / reset password
\* the user query with the e-mail filter alone
ForgotMatches_EmailOnly(email, membership_number) ==
    {u \in users : LowerEq(u.email, email)}

ForgotMatches(email, membership_number) ==
    {u \in users : /\ LowerEq(u.email, email)
                   /\ u.membership_number = membership_number}

\* the submitted form, and the key secrets.token_urlsafe drew for it
ForgotForm(email, membership_number, key) ==
    [email |-> email, membership_number |-> membership_number, key |-> key]

forgot_password(email, membership_number, key, sent) ==
    /\ up
    /\ LET form == ForgotForm(email, membership_number, key) IN
       IF ForgotMatches(email, membership_number) = {}
       THEN /\ resp' = [op |-> "forgot_password", status |-> 200,
                        error |-> "Invalid email or membership number.",
                        key |-> UnknownKey] @@ form
            /\ UNCHANGED resets
       ELSE LET user == CHOOSE u \in ForgotMatches(email, membership_number) : TRUE
                new_reset == [key |-> key, user_id |-> user.id,
                              expires_at |-> now + HOUR, used |-> FALSE]
            IN  IF ResetsUnique(resets \cup {new_reset}) /\ new_reset \notin resets
                THEN /\ resets' = resets \cup {new_reset}
                     /\ resp' = [op |-> "forgot_password", status |-> 200,
                                 error |-> IF sent THEN ""
                                           ELSE "Could not send reset email. Please contact an administrator.",
                                 key |-> key] @@ form
                ELSE /\ resp' = ServerError("forgot_password") @@ form
                     /\ UNCHANGED resets
    /\ UNCHANGED <<up, inflight, users, pwds, now, media>>

\* the token query without its "expires_at > utcnow()" filter
ValidResets_IgnoreExpiry(key) ==
    {r \in resets : r.key = key /\ r.used = FALSE}

\* the token query without its "used == False" filter
ValidResets_IgnoreUsed(key) ==
    {r \in resets : r.key = key /\ r.expires_at > now}

\* the token query shared by GET and POST /reset-password
ValidResets(key) ==
    {r \in resets : r.key = key /\ r.used = FALSE /\ r.expires_at > now}

reset_password_page(key) ==
    /\ up
    /\ resp' = [op |-> "reset_password_page", key |-> key, status |-> 200,
                error |-> IF ValidResets(key) = {}
                          THEN "Invalid or expired reset key." ELSE ""]
    /\ UNCHANGED <<up, inflight, users, pwds, resets, now, media>>

ResetResp(key, new_password, confirm_password, error) ==
    [op |-> "reset_password", key |-> key, new_password |-> new_password,
     confirm_password |-> confirm_password, status |-> 200, error |-> error]

\* reset_password marking the token used as soon as it is found, before the
\* user lookup that can still fail
reset_password_ConsumesEarly(key, new_password, confirm_password) ==
    /\ up
    /\ IF new_password # confirm_password
       THEN /\ resp' = ResetResp(key, new_password, confirm_password, "Passwords do not match.")
            /\ UNCHANGED <<pwds, resets>>
       ELSE IF ~is_password_strong(new_password)
       THEN /\ resp' = ResetResp(key, new_password, confirm_password,
                "Password must be at least 10 characters long and contain both upper and lower case letters.")
            /\ UNCHANGED <<pwds, resets>>
       ELSE IF ValidResets(key) = {}
       THEN /\ resp' = ResetResp(key, new_password, confirm_password, "Invalid or expired reset key.")
            /\ UNCHANGED <<pwds, resets>>
       ELSE LET reset_request == CHOOSE r \in ValidResets(key) : TRUE IN
            /\ resets' = (resets \ {reset_request}) \cup
                   {[reset_request EXCEPT !.used = TRUE]}
            /\ IF UserById(reset_request.user_id) = {}
               THEN /\ resp' = ResetResp(key, new_password, confirm_password, "User not found.")
                    /\ UNCHANGED pwds
               ELSE LET user == CHOOSE u \in UserById(reset_request.user_id) : TRUE IN
                    /\ pwds' = (pwds \ PwdByNumber(pwds, user.membership_number)) \cup
                           {[membership_number |-> user.membership_number,
                             password_hash |-> get_password_hash(new_password)]}
                    /\ resp' = ResetResp(key, new_password, confirm_password, "")
    /\ UNCHANGED <<up, inflight, users, now, media>>

\* history: whose credential a reset overwrote, and the hash it held before
Overwritten(user) ==
    [user_id |-> user.id,
     previous |-> {p.password_hash : p \in PwdByNumber(pwds, user.membership_number)}]

\* reset_password without its "reset_record.used = True"
reset_password_KeepsToken(key, new_password, confirm_password) ==
    /\ up
    /\ IF new_password # confirm_password
       THEN /\ resp' = ResetResp(key, new_password, confirm_password, "Passwords do not match.")
            /\ UNCHANGED <<pwds, resets>>
       ELSE IF ~is_password_strong(new_password)
       THEN /\ resp' = ResetResp(key, new_password, confirm_password,
                "Password must be at least 10 characters long and contain both upper and lower case letters.")
            /\ UNCHANGED <<pwds, resets>>
       ELSE IF ValidResets(key) = {}
       THEN /\ resp' = ResetResp(key, new_password, confirm_password, "Invalid or expired reset key.")
            /\ UNCHANGED <<pwds, resets>>
       ELSE LET reset_request == CHOOSE r \in ValidResets(key) : TRUE IN
            IF UserById(reset_request.user_id) = {}
            THEN /\ resp' = ResetResp(key, new_password, confirm_password, "User not found.")
                 /\ UNCHANGED <<pwds, resets>>
            ELSE LET user == CHOOSE u \in UserById(reset_request.user_id) : TRUE IN
                 /\ pwds' = (pwds \ PwdByNumber(pwds, user.membership_number)) \cup
                        {[membership_number |-> user.membership_number,
                          password_hash |-> get_password_hash(new_password)]}
                 /\ UNCHANGED resets
                 /\ resp' = ResetResp(key, new_password, confirm_password, "") @@
                              Overwritten(user)
    /\ UNCHANGED <<up, inflight, users, now, media>>

reset_password(key, new_password, confirm_password) ==
    /\ up
    /\ IF new_password # confirm_password
       THEN /\ resp' = ResetResp(key, new_password, confirm_password, "Passwords do not match.")
            /\ UNCHANGED <<pwds, resets>>
       ELSE IF ~is_password_strong(new_password)
       THEN /\ resp' = ResetResp(key, new_password, confirm_password,
                "Password must be at least 10 characters long and contain both upper and lower case letters.")
            /\ UNCHANGED <<pwds, resets>>
       ELSE IF ValidResets(key) = {}
       THEN /\ resp' = ResetResp(key, new_password, confirm_password, "Invalid or expired reset key.")
            /\ UNCHANGED <<pwds, resets>>
       ELSE LET reset_request == CHOOSE r \in ValidResets(key) : TRUE IN
            IF UserById(reset_request.user_id) = {}
            THEN /\ resp' = ResetResp(key, new_password, confirm_password, "User not found.")
                 /\ UNCHANGED <<pwds, resets>>
            ELSE LET user == CHOOSE u \in UserById(reset_request.user_id) : TRUE IN
                 /\ pwds' = (pwds \ PwdByNumber(pwds, user.membership_number)) \cup
                        {[membership_number |-> user.membership_number,
                          password_hash |-> get_password_hash(new_password)]}
                 /\ resets' = (resets \ {reset_request}) \cup
                        {[reset_request EXCEPT !.used = TRUE]}
                 /\ resp' = ResetResp(key, new_password, confirm_password, "") @@
                              Overwritten(user)
    /\ UNCHANGED <<up, inflight, users, now, media>>

\* ------------------------------- reset password, one step of a request at a
\* time: each request has its own session (get_db), and what it read or
\* changed stays in the session until db.commit()
Requests == {1, 2}
Idle == [pc |-> "idle", key |-> UnknownKey, new_password |-> NULL,
         reset_request |-> {}, user |-> {}, user_password |-> {}, error |-> ""]
Done(key, new_password, error) ==
    [pc |-> "done", key |-> key, new_password |-> new_password,
     reset_request |-> {}, user |-> {}, user_password |-> {}, error |-> error]
StepResp(r, step, error) ==
    [op |-> "reset_password_step", request |-> r, step |-> step,
     status |-> IF error = "Internal Server Error" THEN 500 ELSE 200, error |-> error]

\* the two form checks and the three queries: token, user, credential
reset_lookup(r, key, new_password, confirm_password) ==
    /\ up
    /\ inflight[r].pc = "idle"
    /\ LET error ==
              IF new_password # confirm_password THEN "Passwords do not match."
              ELSE IF ~is_password_strong(new_password)
              THEN "Password must be at least 10 characters long and contain both upper and lower case letters."
              ELSE IF ValidResets(key) = {} THEN "Invalid or expired reset key."
              ELSE IF \A q \in ValidResets(key) : UserById(q.user_id) = {}
              THEN "User not found."
              ELSE ""
       IN  IF error # ""
           THEN /\ inflight' = [inflight EXCEPT ![r] = Done(key, new_password, error)]
                /\ resp' = StepResp(r, "lookup", error)
           ELSE LET reset_request == CHOOSE q \in ValidResets(key) : TRUE
                    user == CHOOSE u \in UserById(reset_request.user_id) : TRUE
                IN  /\ inflight' = [inflight EXCEPT ![r] =
                           [pc |-> "found", key |-> key, new_password |-> new_password,
                            reset_request |-> {reset_request}, user |-> {user},
                            user_password |-> PwdByNumber(pwds, user.membership_number),
                            error |-> ""]]
                    /\ resp' = StepResp(r, "lookup", "")
    /\ UNCHANGED <<up, users, pwds, resets, now, media>>

\* "user_password.password_hash = ...; reset_request.used = True": the
\* session's objects change, the store does not
reset_write(r) ==
    /\ up
    /\ inflight[r].pc = "found"
    /\ inflight' = [inflight EXCEPT ![r].pc = "written"]
    /\ resp' = StepResp(r, "write", "")
    /\ UNCHANGED <<up, users, pwds, resets, now, media>>

\* db.commit(): the INSERT or UPDATE of the credential and the UPDATE of the
\* token, by primary key, reach the store
reset_commit(r) ==
    /\ up
    /\ inflight[r].pc = "written"
    /\ LET user == CHOOSE u \in inflight[r].user : TRUE
           reset_request == CHOOSE q \in inflight[r].reset_request : TRUE
           stored == PwdByNumber(pwds, user.membership_number)
       IN  IF (inflight[r].user_password = {}) # (stored = {})
           THEN \* INSERT of a taken number, or UPDATE of a row that is gone
                /\ inflight' = [inflight EXCEPT ![r] =
                       Done(inflight[r].key, inflight[r].new_password, "Internal Server Error")]
                /\ resp' = StepResp(r, "commit", "Internal Server Error")
                /\ UNCHANGED <<pwds, resets>>
           ELSE /\ pwds' = (pwds \ stored) \cup
                       {[membership_number |-> user.membership_number,
                         password_hash |-> get_password_hash(inflight[r].new_password)]}
                /\ resets' = {IF q.key = reset_request.key THEN [q EXCEPT !.used = TRUE] ELSE q :
                                 q \in resets}
                /\ inflight' = [inflight EXCEPT ![r] =
                       Done(inflight[r].key, inflight[r].new_password, "")]
                /\ resp' = StepResp(r, "commit", "")
    /\ UNCHANGED <<up, users, now, media>>

\* ---------------------------------------------------------- change password
change_password(c, current_password, new_password, confirm_password) ==
    /\ up
    /\ LET form == PasswordForm(c, current_password, new_password, confirm_password) IN
       IF CookieRaises(c)
       THEN resp' = form @@ ServerError("change_password") /\ UNCHANGED pwds
       ELSE IF get_current_user(c) = {}
       THEN /\ resp' = form @@ Redirect("change_password", c, "/login")
            /\ UNCHANGED pwds
       ELSE LET user == CHOOSE u \in get_current_user(c) : TRUE
                user_password == PwdByNumber(pwds, user.membership_number)
            IN
            IF new_password # confirm_password
            THEN /\ resp' = form @@ Rendered("change_password", c, 200,
                                             "New passwords do not match")
                 /\ UNCHANGED pwds
            ELSE IF ~is_password_strong(new_password)
            THEN /\ resp' = form @@ Rendered("change_password", c, 200,
                        "Password must be at least 10 characters long and contain both upper and lower case letters.")
                 /\ UNCHANGED pwds
            ELSE IF \/ user_password = {}
                    \/ \E p \in user_password :
                           ~verify_password(current_password, p.password_hash)
            THEN /\ resp' = form @@ Rendered("change_password", c, 200,
                                             "Incorrect current password")
                 /\ UNCHANGED pwds
            ELSE /\ pwds' = (pwds \ user_password) \cup
                        {[membership_number |-> user.membership_number,
                          password_hash |-> get_password_hash(new_password)]}
                 /\ resp' = form @@ Rendered("change_password", c, 200, "")
    /\ UNCHANGED <<up, inflight, users, resets, now, media>>

\* the clock
Tick ==
    /\ now < MaxTime
    /\ now' = now + 1
    /\ resp' = [op |-> "tick", status |-> 0, error |-> ""]
    /\ UNCHANGED <<up, inflight, users, pwds, resets, media>>

\* ------------------------------------------------------------ admin: users
\* the form value stored as it was typed
NormEmail_AsTyped(email) == email

\* "if email and email.strip() == '': email = None"
NormEmail(email) == IF Truthy(email) /\ IsBlank(email) THEN NULL ELSE email

create_user(c, membership_number, email_in, is_admin) ==
    /\ up
    /\ NewId(users) <= MaxId
    /\ LET email == NormEmail(email_in)
           new_user == [id |-> NewId(users), membership_number |-> membership_number,
                        email |-> email, is_admin |-> is_admin]
           new_pwd == [membership_number |-> membership_number,
                       password_hash |-> get_password_hash(membership_number)]
       IN
       IF CookieRaises(c)
       THEN resp' = UserForm(c, 0, membership_number, email_in) @@ ServerError("create_user") /\ UNCHANGED <<users, pwds>>
       ELSE IF ~IsAdmin(c)
       THEN resp' = UserForm(c, 0, membership_number, email_in) @@ NotAdminResp("create_user", c) /\ UNCHANGED <<users, pwds>>
       ELSE IF UserByNumber(users, membership_number) # {}
       THEN /\ resp' = UserForm(c, 0, membership_number, email_in) @@ Rendered("create_user", c, 200, "Membership number already exists")
            /\ UNCHANGED <<users, pwds>>
       ELSE IF Truthy(email) /\ UserByEmail(users, email) # {}
       THEN /\ resp' = UserForm(c, 0, membership_number, email_in) @@ Rendered("create_user", c, 200, "Email already exists")
            /\ UNCHANGED <<users, pwds>>
       ELSE IF UsersUnique(users \cup {new_user}) /\ PwdsUnique(pwds \cup {new_pwd})
       THEN /\ users' = users \cup {new_user}
            /\ pwds' = pwds \cup {new_pwd}
            /\ resp' = UserForm(c, 0, membership_number, email_in) @@ Redirect("create_user", c, "/admin/users")
       ELSE resp' = UserForm(c, 0, membership_number, email_in) @@ ServerError("create_user") /\ UNCHANGED <<users, pwds>>
    /\ UNCHANGED <<up, inflight, resets, now, media>>

\* the rows update_user writes: the user row, and the password record when
\* the membership number changes
UpdatedUsers(edit_user, membership_number, email, is_admin) ==
    (users \ {edit_user}) \cup
        {[id |-> edit_user.id, membership_number |-> membership_number,
          email |-> email, is_admin |-> is_admin]}
\* update_user without the "pwd_record.membership_number = membership_number"
UpdatedPwds_NotMoved(old_membership_number, membership_number) == pwds

UpdatedPwds(old_membership_number, membership_number) ==
    IF old_membership_number # membership_number
    THEN {IF p.membership_number = old_membership_number
          THEN [p EXCEPT !.membership_number = membership_number] ELSE p : p \in pwds}
    ELSE pwds

update_user(c, user_id, membership_number, email_in, is_admin, position) ==
    /\ up
    /\ LET email == NormEmail(email_in) IN
       IF CookieRaises(c)
       THEN resp' = UserForm(c, user_id, membership_number, email_in) @@ ServerError("update_user") /\ UNCHANGED <<users, pwds>>
       ELSE IF ~IsAdmin(c)
       THEN resp' = UserForm(c, user_id, membership_number, email_in) @@ NotAdminResp("update_user", c) /\ UNCHANGED <<users, pwds>>
       ELSE IF UserById(user_id) = {}
       THEN resp' = UserForm(c, user_id, membership_number, email_in) @@ Rendered("update_user", c, 404, "User not found") /\ UNCHANGED <<users, pwds>>
       ELSE LET edit_user == CHOOSE u \in UserById(user_id) : TRUE IN
       IF \E existing_mem \in UserByNumber(users, membership_number) : existing_mem.id # user_id
       THEN /\ resp' = UserForm(c, user_id, membership_number, email_in) @@ Rendered("update_user", c, 200, "Membership number already exists")
            /\ UNCHANGED <<users, pwds>>
       ELSE IF Truthy(email) /\ \E existing_email \in UserByEmail(users, email) : existing_email.id # user_id
       THEN /\ resp' = UserForm(c, user_id, membership_number, email_in) @@ Rendered("update_user", c, 200, "Email already exists")
            /\ UNCHANGED <<users, pwds>>
       ELSE IF position = NULL      \* position.lower() on None raises AttributeError
       THEN resp' = UserForm(c, user_id, membership_number, email_in) @@ ServerError("update_user") /\ UNCHANGED <<users, pwds>>
       ELSE IF /\ UsersUnique(UpdatedUsers(edit_user, membership_number, email, is_admin))
               /\ PwdsUnique(UpdatedPwds(edit_user.membership_number, membership_number))
       THEN /\ users' = UpdatedUsers(edit_user, membership_number, email, is_admin)
            /\ pwds' = UpdatedPwds(edit_user.membership_number, membership_number)
            /\ resp' = UserForm(c, user_id, membership_number, email_in) @@ Redirect("update_user", c, "/admin/users")
       ELSE resp' = UserForm(c, user_id, membership_number, email_in) @@ ServerError("update_user") /\ UNCHANGED <<users, pwds>>
    /\ UNCHANGED <<up, inflight, resets, now, media>>

\* relationship("UserPassword", cascade="all, delete-orphan"): the rows that
\* go with a deleted user
CascadePwds(del_user) == PwdByNumber(pwds, del_user.membership_number)

\* delete_user without its "if user.id == user_id" test
delete_user_AllowsSelf(c, user_id) ==
    /\ up
    /\ IF CookieRaises(c)
       THEN resp' = UserForm(c, user_id, NULL, NULL) @@ ServerError("delete_user") /\ UNCHANGED <<users, pwds>>
       ELSE IF ~IsAdmin(c)
       THEN resp' = UserForm(c, user_id, NULL, NULL) @@ NotAdminResp("delete_user", c) /\ UNCHANGED <<users, pwds>>
       ELSE IF FALSE
       THEN resp' = UserForm(c, user_id, NULL, NULL) @@ Redirect("delete_user", c, "/admin/users") /\ UNCHANGED <<users, pwds>>
       ELSE IF UserById(user_id) = {}
       THEN resp' = UserForm(c, user_id, NULL, NULL) @@ Redirect("delete_user", c, "/admin/users") /\ UNCHANGED <<users, pwds>>
       ELSE LET del_user == CHOOSE u \in UserById(user_id) : TRUE IN
            /\ users' = users \ {del_user}
            /\ pwds' = pwds \ CascadePwds(del_user)
            /\ resp' = UserForm(c, user_id, NULL, NULL) @@ Redirect("delete_user", c, "/admin/users")
    /\ UNCHANGED <<up, inflight, resets, now, media>>

\* a delete_user that removes the reset tokens of the user with the user
delete_user_DropsTokens(c, user_id) ==
    /\ up
    /\ IF CookieRaises(c)
       THEN resp' = UserForm(c, user_id, NULL, NULL) @@ ServerError("delete_user") /\ UNCHANGED <<users, pwds, resets>>
       ELSE IF ~IsAdmin(c)
       THEN resp' = UserForm(c, user_id, NULL, NULL) @@ NotAdminResp("delete_user", c) /\ UNCHANGED <<users, pwds, resets>>
       ELSE IF \E user \in get_current_user(c) : user.id = user_id
       THEN resp' = UserForm(c, user_id, NULL, NULL) @@ Redirect("delete_user", c, "/admin/users") /\ UNCHANGED <<users, pwds, resets>>
       ELSE IF UserById(user_id) = {}
       THEN resp' = UserForm(c, user_id, NULL, NULL) @@ Redirect("delete_user", c, "/admin/users") /\ UNCHANGED <<users, pwds, resets>>
       ELSE LET del_user == CHOOSE u \in UserById(user_id) : TRUE IN
            /\ users' = users \ {del_user}
            /\ pwds' = pwds \ CascadePwds(del_user)
            /\ resets' = {r \in resets : r.user_id # user_id}
            /\ resp' = UserForm(c, user_id, NULL, NULL) @@ Redirect("delete_user", c, "/admin/users")
    /\ UNCHANGED <<up, inflight, now, media>>

delete_user(c, user_id) ==
    /\ up
    /\ IF CookieRaises(c)
       THEN resp' = UserForm(c, user_id, NULL, NULL) @@ ServerError("delete_user") /\ UNCHANGED <<users, pwds>>
       ELSE IF ~IsAdmin(c)
       THEN resp' = UserForm(c, user_id, NULL, NULL) @@ NotAdminResp("delete_user", c) /\ UNCHANGED <<users, pwds>>
       ELSE IF \E user \in get_current_user(c) : user.id = user_id
       THEN resp' = UserForm(c, user_id, NULL, NULL) @@ Redirect("delete_user", c, "/admin/users") /\ UNCHANGED <<users, pwds>>
       ELSE IF UserById(user_id) = {}
       THEN resp' = UserForm(c, user_id, NULL, NULL) @@ Redirect("delete_user", c, "/admin/users") /\ UNCHANGED <<users, pwds>>
       ELSE LET del_user == CHOOSE u \in UserById(user_id) : TRUE IN
            /\ users' = users \ {del_user}
            /\ pwds' = pwds \ CascadePwds(del_user)
            /\ resp' = UserForm(c, user_id, NULL, NULL) @@ Redirect("delete_user", c, "/admin/users")
    /\ UNCHANGED <<up, inflight, resets, now, media>>

\* -------------------------------------------------------------- CSV import
\* the session configuration of database.py: a query first flushes the rows
\* added to the session, so it sees them
autoflush == TRUE

\* one line of the uploaded file as csv.DictReader yields it; a line the
\* reader cannot parse raises csv.Error when the loop reaches it
CsvRow(mn, email) == [kind |-> "row", mn |-> mn, email |-> email]
BadLine == [kind |-> "error", mn |-> <<>>, email |-> <<>>]
CsvRows == {CsvRow(mn, email) : mn \in MemberNumbers \cup {<<>>},
                                email \in {<<>>, <<" ">>, <<"A">>}} \cup {BadLine}
SeqsUpTo(S, n) == UNION {[1..k -> S] : k \in 0..n}
CsvFiles == SeqsUpTo(CsvRows, MaxRows)

\* the e-mail column stored as the file has it
RowEmail_AsWritten(row) == row.email

\* "if not email or email.strip() == '': email = None"
RowEmail(row) == IF ~Truthy(row.email) \/ IsBlank(row.email) THEN NULL ELSE row.email

\* the rows a query of the import loop sees
Visible(pending, committed) == IF autoflush THEN pending ELSE committed

\* the loop body without its "if existing_user: continue"
RowSkipped_NoNumberCheck(row, seen) ==
    \/ ~Truthy(row.mn)
    \/ Truthy(RowEmail(row)) /\ UserByEmail(seen, RowEmail(row)) # {}

\* "continue" in the loop body: no number, number taken, e-mail taken
RowSkipped(row, seen) ==
    \/ ~Truthy(row.mn)
    \/ UserByNumber(seen, row.mn) # {}
    \/ Truthy(RowEmail(row)) /\ UserByEmail(seen, RowEmail(row)) # {}

\* one iteration of "for row in reader" on the session state st
ImportRow(st, row) ==
    IF st.raised THEN st
    ELSE IF row.kind = "error" THEN [st EXCEPT !.raised = TRUE]
    ELSE IF RowSkipped(row, Visible(st.us, users)) THEN st
    ELSE [us |-> st.us \cup {[id |-> NewId(st.us), membership_number |-> row.mn,
                               email |-> RowEmail(row), is_admin |-> FALSE]},
          ps |-> st.ps \cup {[membership_number |-> row.mn,
                               password_hash |-> get_password_hash(row.mn)]},
          added |-> st.added + 1,
          count |-> st.count + 1,
          raised |-> FALSE]

RECURSIVE ImportRows(_, _, _)
ImportRows(file, i, st) ==
    IF i > Len(file) THEN st ELSE ImportRows(file, i + 1, ImportRow(st, file[i]))

\* the session when db.commit() is reached or an exception is caught;
\* db.add() of a second row with a taken unique key makes the flush raise
ImportSession(file) ==
    LET st == ImportRows(file, 1, [us |-> users, ps |-> pwds, added |-> 0,
                                   count |-> 0, raised |-> FALSE])
    IN  IF st.raised \/ Cardinality(st.us) # Cardinality(users) + st.added
                     \/ Cardinality(st.ps) # Cardinality(pwds) + st.added
                     \/ ~UsersUnique(st.us) \/ ~PwdsUnique(st.ps)
        THEN [st EXCEPT !.raised = TRUE] ELSE st

ImportResp(c, file, error, count) ==
    [op |-> "import_users", cookie |-> c, file |-> file, status |-> 200,
     error |-> error, count |-> count, location |-> ""]

\* an exception handler that commits what the session holds
ImportRollback_KeepsRows(file) ==
    /\ users' = ImportRows(file, 1, [us |-> users, ps |-> pwds, added |-> 0,
                                     count |-> 0, raised |-> FALSE]).us
    /\ pwds' = ImportRows(file, 1, [us |-> users, ps |-> pwds, added |-> 0,
                                    count |-> 0, raised |-> FALSE]).ps

\* except Exception: db.rollback()
ImportRollback(file) == UNCHANGED <<users, pwds>>

import_users(c, file) ==
    /\ up
    /\ \A u \in ImportSession(file).us : u.id <= MaxId
    /\ IF CookieRaises(c)
       THEN resp' = By(c) @@ ServerError("import_users") /\ UNCHANGED <<users, pwds>>
       ELSE IF ~IsAdmin(c)
       THEN resp' = By(c) @@ NotAdminResp("import_users", c) /\ UNCHANGED <<users, pwds>>
       ELSE IF ImportSession(file).raised
       THEN /\ ImportRollback(file)
            /\ resp' = By(c) @@ ImportResp(c, file, "str(e)", 0)
       ELSE /\ users' = ImportSession(file).us
            /\ pwds' = ImportSession(file).ps
            /\ resp' = By(c) @@ ImportResp(c, file, "", ImportSession(file).count)
    /\ UNCHANGED <<up, inflight, resets, now, media>>

\* ----------------------------------------------------------------- startup
Home == <<"h","o","m","e">>
About == <<"a","b","o","u","t">>
Calendar == <<"c","a","l","e","n","d","a","r">>

\* "if not db.query(models.Page).filter(slug == ...).first(): db.add(...)"
AddPage(ps, slug, is_public) ==
    IF \E p \in ps : p.slug = slug THEN ps
    ELSE ps \cup {[id |-> NewId(ps), slug |-> slug, is_public |-> is_public]}
DefaultPages(ps) == AddPage(AddPage(AddPage(ps, Home, TRUE), About, TRUE), Calendar, FALSE)

\* a default that replaces the value an administrator has set
AddSetting_Overwrite(ss, key, value) ==
    {x \in ss : x.key # key} \cup {[key |-> key, value |-> value]}
AddSetting(ss, key, value) ==
    IF \E x \in ss : x.key = key THEN ss ELSE ss \cup {[key |-> key, value |-> value]}
DefaultSettings(ss) ==
    AddSetting(AddSetting(AddSetting(AddSetting(ss,
        "council_name", "My Council"), "council_number", "1234"),
        "app_title", "KC Portal"), "email_text", "Welcome to our portal")

\* "Create a default admin user if no users exist"
BootstrapUsers(us) ==
    IF us = {} THEN {[id |-> NewId(us), membership_number |-> AdminUser,
                      email |-> AdminEmail, is_admin |-> TRUE]}
    ELSE us
BootstrapPwds(us, ps) ==
    IF us = {} THEN ps \cup {[membership_number |-> AdminUser,
                              password_hash |-> get_password_hash(AdminPass)]}
    ELSE ps
\* "Initialize passwords for existing users if missing"
MissingPwds(us, ps) ==
    {[membership_number |-> u.membership_number,
      password_hash |-> get_password_hash(u.membership_number)] :
        u \in {v \in us : Truthy(v.membership_number)
                          /\ PwdByNumber(ps, v.membership_number) = {}}}

MaxPageId == 4

startup_event ==
    /\ \A p \in DefaultPages(pages) : p.id <= MaxPageId
    /\ up' = TRUE
    /\ pages' = DefaultPages(pages)
    /\ settings' = DefaultSettings(settings)
    /\ users' = BootstrapUsers(users)
    /\ pwds' = BootstrapPwds(users, pwds) \cup
               MissingPwds(BootstrapUsers(users), BootstrapPwds(users, pwds))
    /\ resp' = [op |-> "startup", status |-> 0, error |-> ""]
    /\ UNCHANGED <<resets, now, files, uploaded, inflight>>

\* ------------------------------------------------------------------ paths
\* A path string is a sequence of characters; on disk a path is the sequence
\* of its segments from the root directory.

\* str.strip()
RECURSIVE LStrip(_)
LStrip(s) == IF s # <<>> /\ Head(s) = " " THEN LStrip(Tail(s)) ELSE s
RECURSIVE RStrip(_)
RStrip(s) ==
    IF s # <<>> /\ s[Len(s)] = " " THEN RStrip(SubSeq(s, 1, Len(s) - 1)) ELSE s
Strip(s) == RStrip(LStrip(s))

\* str.split("/") and str.split(",")
RECURSIVE SplitOn(_, _, _)
SplitOn(s, sep, cur) ==
    IF s = <<>> THEN <<cur>>
    ELSE IF Head(s) = sep THEN <<cur>> \o SplitOn(Tail(s), sep, <<>>)
    ELSE SplitOn(Tail(s), sep, Append(cur, Head(s)))
Split(s, sep) == SplitOn(s, sep, <<>>)

\* os.path.join(base, path): an absolute path discards the base
PathJoin(base, path) ==
    IF path # <<>> /\ Head(path) = "/" THEN Split(path, "/")
    ELSE base \o Split(path, "/")

\* os.path.normpath on segments: "" and "." vanish, ".." climbs, not past "/"
RECURSIVE NormSegs(_, _)
NormSegs(segs, acc) ==
    IF segs = <<>> THEN acc
    ELSE IF Head(segs) = <<>> \/ Head(segs) = <<".">> THEN NormSegs(Tail(segs), acc)
    ELSE IF Head(segs) = <<".", ".">>
         THEN NormSegs(Tail(segs), IF acc = <<>> THEN acc ELSE SubSeq(acc, 1, Len(acc) - 1))
    ELSE NormSegs(Tail(segs), Append(acc, Head(segs)))
normpath(segs) == NormSegs(segs, <<>>)

\* the path as the string the code compares: "/seg/seg"
RECURSIVE PathString(_)
PathString(segs) ==
    IF segs = <<>> THEN <<>> ELSE <<"/">> \o Head(segs) \o PathString(Tail(segs))

\* str.startswith
StartsWith(s, prefix) ==
    Len(prefix) <= Len(s) /\ SubSeq(s, 1, Len(prefix)) = prefix

\* os.path.basename
RECURSIVE basename(_)
basename(s) ==
    IF \E i \in 1..Len(s) : s[i] = "/"
    THEN basename(SubSeq(s, (CHOOSE i \in 1..Len(s) : s[i] = "/") + 1, Len(s)))
    ELSE s

\* MEDIA_FOLDER, an absolute directory: /m
MEDIA_FOLDER == << <<"m">> >>

\* files the process can read next to and outside the media folder: /m2/s, /e
OutsideFiles == { << <<"m", "2">>, <<"s">> >>, << <<"e">> >> }

\* segs lies in directory dir or below it
Below(segs, dir) ==
    Len(segs) > Len(dir) /\ SubSeq(segs, 1, Len(dir)) = dir
\* os.path.isdir: the root, the media folder, or a directory holding a file
isdir(fs, segs) ==
    segs = <<>> \/ segs = MEDIA_FOLDER \/ \E f \in fs : Below(f, segs)

\* ".startswith(os.path.abspath(MEDIA_FOLDER))", the containment test of
\* get_media, update_page and delete_page
PassesCheck(segs) == StartsWith(PathString(segs), PathString(MEDIA_FOLDER))

\* ------------------------------------------------------------------ media
MediaResp(path, status, served) ==
    [op |-> "get_media", path |-> path, status |-> status, served |-> served]

get_media(file_path) ==
    /\ up
    /\ LET safe_path == normpath(PathJoin(MEDIA_FOLDER, file_path)) IN
       resp' = IF ~PassesCheck(safe_path) THEN MediaResp(file_path, 404, <<>>)
               ELSE IF safe_path \in files THEN MediaResp(file_path, 200, safe_path)
               ELSE MediaResp(file_path, 404, <<>>)
    /\ UNCHANGED <<up, inflight, users, pwds, resets, now, media>>

\* "".join(c for c in safe_slug if c.isalnum() or c in ('-', '_'))
RECURSIVE KeepSafe(_)
KeepSafe(s) ==
    IF s = <<>> THEN <<>>
    ELSE IF IsAlnumChar(Head(s)) \/ Head(s) \in {"-", "_"}
         THEN <<Head(s)>> \o KeepSafe(Tail(s))
    ELSE KeepSafe(Tail(s))
General == <<"g","e","n","e","r","a","l">>
SafeSlug(slug) == KeepSafe(IF Strip(slug) = <<>> THEN General ELSE Strip(slug))
\* original_filename.replace(" ", "_"), then os.path.basename
SafeFilename(filename) ==
    basename([i \in 1..Len(filename) |-> IF filename[i] = " " THEN "_" ELSE filename[i]])
\* os.path.join(MEDIA_FOLDER, safe_slug)
UploadDir(slug) == normpath(PathJoin(MEDIA_FOLDER, SafeSlug(slug)))
\* f"/media/{safe_slug}/{safe_filename}", the part after /media/
UploadUrl(slug, filename) == SafeSlug(slug) \o <<"/">> \o SafeFilename(filename)

UploadResp(c, slug, filename, status, url) ==
    [op |-> "upload_image", cookie |-> c, slug |-> slug, filename |-> filename,
     status |-> status, url |-> url, error |-> ""]

upload_image(c, slug, filename) ==
    /\ up
    /\ LET file_path == UploadDir(slug) \o <<SafeFilename(filename)>> IN
       IF CookieRaises(c)
       THEN resp' = By(c) @@ ServerError("upload_image") /\ UNCHANGED <<files, uploaded>>
       ELSE IF ~IsAdmin(c)
       THEN /\ resp' = By(c) @@ UploadResp(c, slug, filename, 403, <<>>)
            /\ UNCHANGED <<files, uploaded>>
       ELSE IF \/ UploadDir(slug) \in files             \* makedirs / open: not a directory
               \/ SafeFilename(filename) \in {<<>>, <<".">>, <<".", ".">>}
               \/ isdir(files, file_path)                \* open(): is a directory
       THEN resp' = By(c) @@ ServerError("upload_image") /\ UNCHANGED <<files, uploaded>>
       ELSE /\ files' = files \cup {file_path}
            /\ uploaded' = uploaded \cup
                   {[page |-> p.id, url |-> UploadUrl(slug, filename)] :
                        p \in {q \in pages : q.slug = slug}}
            /\ resp' = By(c) @@ UploadResp(c, slug, filename, 200, UploadUrl(slug, filename))
    /\ UNCHANGED <<up, inflight, users, pwds, resets, now, pages, settings>>

\* ------------------------------------------------------------------ pages
PagesUnique(ps) ==
    \A p, q \in ps : /\ (p.id = q.id) => (p = q)
                     /\ (p # q) => p.slug # q.slug
PageById(id) == {p \in pages : p.id = id}

PageResp(op, c, page_id, status, location) ==
    [op |-> op, cookie |-> c, page_id |-> page_id, status |-> status,
     error |-> "", location |-> location]

create_page(c, slug, is_public) ==
    /\ up
    /\ NewId(pages) <= MaxPageId
    /\ LET new_page == [id |-> NewId(pages), slug |-> slug, is_public |-> is_public] IN
       IF CookieRaises(c)
       THEN resp' = PageForm(c, 0, slug) @@ ServerError("create_page") /\ UNCHANGED pages
       ELSE IF ~IsAdmin(c)
       THEN resp' = PageForm(c, 0, slug) @@ PageResp("create_page", c, 0, 303, "/") /\ UNCHANGED pages
       ELSE IF PagesUnique(pages \cup {new_page})
       THEN /\ pages' = pages \cup {new_page}
            /\ resp' = PageForm(c, 0, slug) @@ PageResp("create_page", c, new_page.id, 303, "/admin/pages")
       ELSE resp' = PageForm(c, 0, slug) @@ ServerError("create_page") /\ UNCHANGED pages
    /\ UNCHANGED <<up, inflight, users, pwds, resets, now, files, uploaded, settings>>

\* the files "for image_path in deleted_images.split(',')" removes
RECURSIVE RemoveImages(_, _)
RemoveImages(fs, image_paths) ==
    IF image_paths = <<>> THEN fs
    ELSE LET image_path == Head(image_paths)
             full_path == normpath(PathJoin(MEDIA_FOLDER, image_path))
         IN  IF image_path # <<>> /\ PassesCheck(full_path) /\ full_path \in fs
             THEN RemoveImages(fs \ {full_path}, Tail(image_paths))
             ELSE RemoveImages(fs, Tail(image_paths))

update_page(c, page_id, slug, is_public, deleted_images) ==
    /\ up
    /\ IF CookieRaises(c)
       THEN resp' = PageForm(c, page_id, slug) @@ ServerError("update_page") /\ UNCHANGED <<pages, files>>
       ELSE IF ~IsAdmin(c)
       THEN resp' = PageForm(c, page_id, slug) @@ PageResp("update_page", c, page_id, 303, "/") /\ UNCHANGED <<pages, files>>
       ELSE IF PageById(page_id) = {}
       THEN resp' = PageForm(c, page_id, slug) @@ PageResp("update_page", c, page_id, 404, "") /\ UNCHANGED <<pages, files>>
       ELSE LET page == CHOOSE p \in PageById(page_id) : TRUE
                edited == (pages \ {page}) \cup
                          {[id |-> page.id, slug |-> slug, is_public |-> is_public]}
            IN  IF ~PagesUnique(edited)
                THEN resp' = PageForm(c, page_id, slug) @@ ServerError("update_page") /\ UNCHANGED <<pages, files>>
                ELSE /\ pages' = edited
                     /\ files' = IF deleted_images # <<>>
                                 THEN RemoveImages(files, Split(deleted_images, ","))
                                 ELSE files
                     /\ resp' = PageForm(c, page_id, slug) @@ PageResp("update_page", c, page_id, 303, "/admin/pages")
    /\ UNCHANGED <<up, inflight, users, pwds, resets, now, uploaded, settings>>

\* shutil.rmtree(safe_path) after the containment and isdir tests
RemoveTree(fs, page_slug) ==
    LET safe_path == normpath(PathJoin(MEDIA_FOLDER, page_slug)) IN
    IF page_slug # <<>> /\ PassesCheck(safe_path) /\ isdir(fs, safe_path)
    THEN {f \in fs : ~Below(f, safe_path)}
    ELSE fs

delete_page(c, page_id) ==
    /\ up
    /\ IF CookieRaises(c)
       THEN resp' = PageForm(c, page_id, NULL) @@ ServerError("delete_page") /\ UNCHANGED <<pages, files, uploaded>>
       ELSE IF ~IsAdmin(c)
       THEN /\ resp' = PageForm(c, page_id, NULL) @@ PageResp("delete_page", c, page_id, 303, "/")
            /\ UNCHANGED <<pages, files, uploaded>>
       ELSE IF PageById(page_id) = {}
       THEN /\ resp' = PageForm(c, page_id, NULL) @@ PageResp("delete_page", c, page_id, 303, "/admin/pages")
            /\ UNCHANGED <<pages, files, uploaded>>
       ELSE LET page == CHOOSE p \in PageById(page_id) : TRUE IN
            /\ pages' = pages \ {page}
            /\ files' = RemoveTree(files, page.slug)
            /\ uploaded' = {u \in uploaded : u.page # page_id}
            /\ resp' = PageForm(c, page_id, NULL) @@ PageResp("delete_page", c, page_id, 303, "/admin/pages")
    /\ UNCHANGED <<up, inflight, users, pwds, resets, now, settings>>

\* --------------------------------------------------------------- settings
\* a submitted form: a set of [key, value] with one value per key
FormValue(form, key) == (CHOOSE f \in form : f.key = key).value
\* form_data.get(key): None when the key is absent; None and "" are both falsy
FormGet(form, key) == IF \E f \in form : f.key = key THEN FormValue(form, key) ELSE ""

\* 'if key == "new_key" or key == "new_value": continue'
ReservedKeys == {"new_key", "new_value"}

\* "for key, value in form_data.items(): ... setting.value = value"
UpdatedSettings(form) ==
    {IF x.key \notin ReservedKeys /\ \E f \in form : f.key = x.key
     THEN [x EXCEPT !.value = FormValue(form, x.key)] ELSE x : x \in settings}

\* "if new_key and new_value: if not ...first(): db.add(new_setting)"
AddedSettings(ss, new_key, new_value) ==
    IF new_key # "" /\ new_value # "" THEN AddSetting(ss, new_key, new_value) ELSE ss

update_settings(c, form) ==
    /\ up
    /\ IF CookieRaises(c)
       THEN /\ resp' = [form |-> form] @@ By(c) @@ ServerError("update_settings")
            /\ UNCHANGED settings
       ELSE IF ~IsAdmin(c)
       THEN /\ resp' = [form |-> form] @@ NotAdminResp("update_settings", c)
            /\ UNCHANGED settings
       ELSE /\ settings' = AddedSettings(UpdatedSettings(form),
                                         FormGet(form, "new_key"), FormGet(form, "new_value"))
            /\ resp' = [form |-> form] @@ Redirect("update_settings", c, "/admin/settings")
    /\ UNCHANGED <<up, inflight, users, pwds, resets, now, pages, files, uploaded>>

\* ------------------------------------------------- pages that only read
\* GET /admin/import, /admin/pages, /admin/pages/new, /admin/users,
\* /admin/users/new, /admin/settings: the same three lines, then a template
AdminPages == {"import_page", "list_pages", "new_page", "list_users", "new_user",
               "list_settings"}
admin_page(op, c) ==
    /\ up
    /\ resp' = IF CookieRaises(c) THEN By(c) @@ ServerError(op)
               ELSE IF ~IsAdmin(c) THEN NotAdminResp(op, c)
               ELSE Rendered(op, c, 200, "")
    /\ UNCHANGED <<up, inflight, users, pwds, resets, now, media>>

\* GET /admin/pages/{page_id}/edit
edit_page(c, page_id) ==
    /\ up
    /\ resp' = IF CookieRaises(c) THEN PageForm(c, page_id, NULL) @@ ServerError("edit_page")
               ELSE IF ~IsAdmin(c) THEN PageResp("edit_page", c, page_id, 303, "/")
               ELSE IF PageById(page_id) = {} THEN PageResp("edit_page", c, page_id, 404, "")
               ELSE PageResp("edit_page", c, page_id, 200, "")
    /\ UNCHANGED <<up, inflight, users, pwds, resets, now, media>>

\* GET /admin/api/pages/{page_id}, answering JSON
get_page_content(c, page_id) ==
    /\ up
    /\ resp' = IF CookieRaises(c)
               THEN PageForm(c, page_id, NULL) @@ ServerError("get_page_content")
               ELSE IF ~IsAdmin(c) THEN PageResp("get_page_content", c, page_id, 403, "")
               ELSE IF PageById(page_id) = {}
               THEN PageResp("get_page_content", c, page_id, 404, "")
               ELSE PageResp("get_page_content", c, page_id, 200, "")
    /\ UNCHANGED <<up, inflight, users, pwds, resets, now, media>>

\* GET /admin/users/{user_id}/edit
edit_user(c, user_id) ==
    /\ up
    /\ resp' = UserForm(c, user_id, NULL, NULL) @@
               (IF CookieRaises(c) THEN ServerError("edit_user")
                ELSE IF ~IsAdmin(c) THEN NotAdminResp("edit_user", c)
                ELSE IF UserById(user_id) = {}
                THEN Rendered("edit_user", c, 404, "User not found")
                ELSE Rendered("edit_user", c, 200, ""))
    /\ UNCHANGED <<up, inflight, users, pwds, resets, now, media>>

\* GET /change-password
change_password_page(c) ==
    /\ up
    /\ resp' = IF CookieRaises(c) THEN By(c) @@ ServerError("change_password_page")
               ELSE IF get_current_user(c) = {}
               THEN Redirect("change_password_page", c, "/login")
               ELSE Rendered("change_password_page", c, 200, "")
    /\ UNCHANGED <<up, inflight, users, pwds, resets, now, media>>

\* GET /logout: the cookie is deleted in the browser, nothing on the server
logout(c) ==
    /\ up
    /\ resp' = [op |-> "logout", cookie |-> c, status |-> 303, error |-> "",
                location |-> "/", set_cookie |-> "deleted"]
    /\ UNCHANGED <<up, inflight, users, pwds, resets, now, media>>

\* GET /members; names are not part of the model: comparable says whether
\* members.sort() can order them (a None name next to a string raises)
members(c, comparable) ==
    /\ up
    /\ resp' = IF CookieRaises(c) THEN By(c) @@ ServerError("members")
               ELSE IF get_current_user(c) = {} THEN Redirect("members", c, "/login")
               ELSE IF Cardinality(users) > 1 /\ ~comparable
               THEN By(c) @@ ServerError("members")
               ELSE Rendered("members", c, 200, "")
    /\ UNCHANGED <<up, inflight, users, pwds, resets, now, media>>

\* ------------------------------------------------------- pages for visitors
\* db.query(models.Page).filter(models.Page.slug == slug).first()
PageBySlug(slug) == {p \in pages : p.slug = slug}
\* the response to a GET of a page: the page handed to the template, if any
ViewResp(op, c, slug, status, location, page) ==
    [op |-> op, cookie |-> c, slug |-> slug, status |-> status, error |-> "",
     location |-> location, page |-> page]

\* GET /, /about and /calendar: the page with that slug, or none, is rendered
FixedRoutes == [home |-> Home, about |-> About, calendar |-> Calendar]
fixed_page(op, c) ==
    /\ up
    /\ resp' = IF CookieRaises(c) THEN By(c) @@ ServerError(op)
               ELSE ViewResp(op, c, FixedRoutes[op], 200, "", PageBySlug(FixedRoutes[op]))
    /\ UNCHANGED <<up, inflight, users, pwds, resets, now, media>>

\* GET /{slug}, the last route: it gets the paths no other route takes
view_page(c, slug) ==
    /\ up
    /\ resp' = IF CookieRaises(c) THEN By(c) @@ ServerError("view_page")
               ELSE IF PageBySlug(slug) = {} THEN ViewResp("view_page", c, slug, 404, "", {})
               ELSE IF \E page \in PageBySlug(slug) : ~page.is_public /\ get_current_user(c) = {}
               THEN ViewResp("view_page", c, slug, 303, "/login", {})
               ELSE ViewResp("view_page", c, slug, 200, "", PageBySlug(slug))
    /\ UNCHANGED <<up, inflight, users, pwds, resets, now, media>>

\* ------------------------------------------------------------ specification
Init ==
    /\ up = FALSE
    /\ users = {}
    /\ pwds = {}
    /\ resets = {}
    /\ now = 0
    /\ pages = {}
    /\ files = OutsideFiles
    /\ uploaded = {}
    /\ settings = {}
    /\ inflight = [r \in Requests |-> Idle]
    /\ resp = [op |-> "none", status |-> 0, error |-> ""]

Positions == {NULL, <<"x">>}
AdminCookies == {NumCookie(i) : i \in 1..MaxId}

\* ---- users and import
CreateUser ==
    \E c \in AdminCookies, mn \in MemberNumbers, email \in EmailInputs, adm \in BOOLEAN :
        create_user(c, mn, email, adm)
UpdateUser ==
    \E c \in AdminCookies, id \in 1..MaxId, mn \in MemberNumbers,
       email \in EmailInputs, adm \in BOOLEAN, pos \in Positions :
        update_user(c, id, mn, email, adm, pos)
DeleteUser == \E c \in AdminCookies, id \in 1..MaxId : delete_user(c, id)
MemberRows == {CsvRow(<<"a">>, <<" ">>), CsvRow(<<"A">>, <<"A">>), BadLine}
ImportMembers ==
    \E c \in AdminCookies, file \in SeqsUpTo(MemberRows, MaxRows) : import_users(c, file)

Next ==
    \/ startup_event
    \/ CreateUser
    \/ UpdateUser
    \/ DeleteUser
    \/ ImportMembers
Spec == Init /\ [][Next]_vars

\* ---- login
Login == \E username \in Usernames, password \in Passwords : login(username, password)

NextLogin ==
    \/ startup_event
    \/ CreateUser
    \/ UpdateUser
    \/ DeleteUser
    \/ Login
SpecLogin == Init /\ [][NextLogin]_vars

\* ---- password reset: the administrator and one member, who comes and goes
Member == <<"a">>
MemberEmail == <<"A">>
CreateMember == create_user(NumCookie(1), Member, MemberEmail, FALSE)
DeleteMember == \E id \in 2..MaxId : delete_user(NumCookie(1), id)
ForgotPassword ==
    \E email \in {AdminEmail, Lower(MemberEmail)}, mn \in {AdminUser, Member},
       key \in Keys, sent \in BOOLEAN : forgot_password(email, mn, key, sent)
ResetKeys == Keys \cup {UnknownKey}
ResetPasswordPage == \E key \in ResetKeys : reset_password_page(key)
ResetInputs == {<<StrongPass, StrongPass>>, <<StrongPass, WeakPass>>, <<WeakPass, WeakPass>>}
ResetPassword == \E key \in ResetKeys, p \in ResetInputs : reset_password(key, p[1], p[2])

NextReset ==
    \/ startup_event
    \/ CreateMember
    \/ DeleteMember
    \/ ForgotPassword
    \/ ResetPasswordPage
    \/ ResetPassword
    \/ Tick
SpecReset == Init /\ [][NextReset]_vars

\* ---- CSV import
ImportUsers == \E c \in Cookies, file \in CsvFiles : import_users(c, file)

NextImport ==
    \/ startup_event
    \/ CreateMember
    \/ DeleteMember
    \/ ImportUsers
SpecImport == Init /\ [][NextImport]_vars

\* ---- pages and media
Slugs == {<<"s">>, <<"t">>}
Filenames == {<<"f">>}
MediaPaths == {<<"s","/","f">>, <<"t","/","f">>,
               <<".",".","/","m","2","/","s">>, <<".",".","/","e">>, <<"/","e">>}
\* the three default pages keep ids 1..3; the administrator works on the others
FirstPageId == Cardinality({Home, About, Calendar}) + 1
CreatePage == \E c \in {NoCookie, NumCookie(1)}, slug \in Slugs, pub \in BOOLEAN :
    create_page(c, slug, pub)
UpdatePage ==
    \E id \in FirstPageId..MaxPageId, slug \in Slugs, images \in {<<>>} \cup MediaPaths :
        update_page(NumCookie(1), id, slug, TRUE, images)
DeletePage == \E id \in FirstPageId..MaxPageId : delete_page(NumCookie(1), id)
UploadImage == \E c \in {NoCookie, NumCookie(1)}, slug \in Slugs, filename \in Filenames :
    upload_image(c, slug, filename)
GetMedia == \E path \in MediaPaths : get_media(path)

NextMedia ==
    \/ startup_event
    \/ CreatePage
    \/ UpdatePage
    \/ DeletePage
    \/ UploadImage
    \/ GetMedia
SpecMedia == Init /\ [][NextMedia]_vars

\* ---- every operation on users and credentials, on the administrator and
\* the members he creates, renames, imports and deletes
RenameMember ==
    \E id \in 2..MaxId, mn \in MemberNumbers :
        update_user(NumCookie(1), id, mn, MemberEmail, FALSE, <<"x">>)
LoginMember ==
    \E username \in MemberNumbers, password \in {Member, StrongPass} :
        login(username, password)
ForgotMember == \E mn \in MemberNumbers : forgot_password(Lower(MemberEmail), mn, 1, TRUE)
ResetMember == \E p \in ResetInputs : reset_password(1, p[1], p[2])
ChangeMember ==
    \E id \in 2..MaxId, cur \in {Member, StrongPass} :
        change_password(NumCookie(id), cur, AdminPass, AdminPass)

NextAccounts ==
    \/ startup_event
    \/ CreateMember
    \/ RenameMember
    \/ DeleteMember
    \/ ImportMembers
    \/ LoginMember
    \/ ForgotMember
    \/ ResetMember
    \/ ChangeMember
SpecAccounts == Init /\ [][NextAccounts]_vars

\* ---- the administrator's routes, asked for by anybody
AdminNumbers == {Member, AdminUser}
AdminEmails == {MemberEmail, AdminEmail}
AdminSlugs == {<<"s">>, Home}
AdminCreateUser ==
    \E c \in Cookies, mn \in AdminNumbers, email \in AdminEmails, adm \in BOOLEAN :
        create_user(c, mn, email, adm)
AdminUpdateUser ==
    \E c \in Cookies, id \in 2..MaxId, mn \in AdminNumbers, email \in AdminEmails :
        update_user(c, id, mn, email, FALSE, <<"x">>)
AdminDeleteUser == \E c \in Cookies, id \in 1..MaxId : delete_user(c, id)
AdminImport == \E c \in Cookies : import_users(c, <<CsvRow(Member, <<>>)>>)
AdminCreatePage == \E c \in Cookies, slug \in AdminSlugs : create_page(c, slug, TRUE)
AdminUpdatePage ==
    \E c \in Cookies, slug \in AdminSlugs, images \in {<<>>, <<"s","/","f">>} :
        update_page(c, FirstPageId, slug, TRUE, images)
AdminDeletePage == \E c \in Cookies : delete_page(c, FirstPageId)
AdminUpload == \E c \in Cookies : upload_image(c, <<"s">>, <<"f">>)
AdminSettings ==
    \E c \in Cookies :
        update_settings(c, {[key |-> "app_title", value |-> "Portal"],
                            [key |-> "new_key", value |-> "motto"],
                            [key |-> "new_value", value |-> "x"]})
AdminPage == \E c \in Cookies, op \in AdminPages : admin_page(op, c)
AdminEditPage == \E c \in Cookies : edit_page(c, FirstPageId)
AdminPageContent == \E c \in Cookies : get_page_content(c, FirstPageId)
AdminEditUser == \E c \in Cookies, id \in 1..MaxId : edit_user(c, id)
ChangePasswordPage == \E c \in Cookies : change_password_page(c)

NextAdmin ==
    \/ startup_event
    \/ AdminCreateUser
    \/ AdminUpdateUser
    \/ AdminDeleteUser
    \/ AdminImport
    \/ AdminCreatePage
    \/ AdminUpdatePage
    \/ AdminDeletePage
    \/ AdminUpload
    \/ AdminSettings
    \/ AdminPage
    \/ AdminEditPage
    \/ AdminPageContent
    \/ AdminEditUser
    \/ ChangePasswordPage
SpecAdmin == Init /\ [][NextAdmin]_vars

\* ---- settings: the administrator and an anonymous visitor post the form
SettingKeys == {"app_title", "x", "new_key", "new_value"}
\* the values a field of the form takes when it is present
FieldValues(key) ==
    IF key = "app_title" THEN {"x", ""}
    ELSE IF key = "x" THEN {"y"}
    ELSE IF key = "new_key" THEN {"x", "new_key", ""}
    ELSE {"y", ""}
Absent == "absent"
SettingsForms ==
    {{[key |-> k, value |-> v[k]] : k \in {j \in SettingKeys : v[j] # Absent}} :
        v \in {w \in [SettingKeys -> {"x", "y", "new_key", "", Absent}] :
                  \A k \in SettingKeys : w[k] \in FieldValues(k) \cup {Absent}}}
PostSettings ==
    \E c \in {NoCookie, NumCookie(1)}, form \in SettingsForms : update_settings(c, form)

NextSettings ==
    \/ startup_event
    \/ PostSettings
SpecSettings == Init /\ [][NextSettings]_vars

\* ---- image upload: slugs and file names that need sanitizing
UploadSlugs == {<<"s">>, <<" ">>, <<"/">>, <<".", ".", "/", "t">>}
UploadNames == {<<"f">>, <<"a", " ", "b">>, <<"d", "/", "f">>, <<"f", "/">>}
PostImage ==
    /\ Cardinality(files) < Cardinality(OutsideFiles) + MaxUploads
    /\ \E c \in {NoCookie, NumCookie(1)}, slug \in UploadSlugs, filename \in UploadNames :
          upload_image(c, slug, filename)

NextUpload ==
    \/ startup_event
    \/ PostImage
SpecUpload == Init /\ [][NextUpload]_vars

\* ---- sessions: a member logs in and out, changes password, is promoted
Logout == \E c \in Cookies : logout(c)
PromoteMember ==
    \E id \in 2..MaxId, adm \in BOOLEAN :
        update_user(NumCookie(1), id, Member, MemberEmail, adm, <<"x">>)
Members == \E c \in Cookies, comparable \in BOOLEAN : members(c, comparable)

NextSession ==
    \/ startup_event
    \/ CreateMember
    \/ DeleteMember
    \/ PromoteMember
    \/ LoginMember
    \/ Logout
    \/ ChangeMember
    \/ ForgotMember
    \/ ResetMember
    \/ ChangePasswordPage
    \/ Members
SpecSession == Init /\ [][NextSession]_vars

\* ---- pages and their media: a page is created, gets images, is deleted
PageSlugs == {<<"s">>, <<".">>}
NewPage ==
    \E c \in {NoCookie, NumCookie(1)}, slug \in PageSlugs : create_page(c, slug, TRUE)
PageImage ==
    \E slug \in {Home, <<"s">>}, filename \in {<<"f">>, <<"g">>} :
        upload_image(NumCookie(1), slug, filename)
RemovePage ==
    \E c \in {NoCookie, NumCookie(1)}, id \in FirstPageId..MaxPageId : delete_page(c, id)

NextPages ==
    \/ startup_event
    \/ NewPage
    \/ PageImage
    \/ RemovePage
SpecPages == Init /\ [][NextPages]_vars

\* ---- a token outlives its user: only the member numbered "a" asks for
\* tokens; the administrator deletes users and imports the member "A"
MemberForgot == \E key \in Keys : forgot_password(Lower(MemberEmail), Member, key, TRUE)
OtherImport == import_users(NumCookie(1), <<CsvRow(<<"A">>, <<" ">>)>>)

NextTakeover ==
    \/ startup_event
    \/ CreateMember
    \/ DeleteMember
    \/ OtherImport
    \/ MemberForgot
    \/ ResetPassword
SpecTakeover == Init /\ [][NextTakeover]_vars

\* ---- two reset requests at once: the member holds a token and posts twice
RaceLookup ==
    \E r \in Requests, key \in ResetKeys, p \in ResetInputs \cup {<<AdminPass, AdminPass>>} :
        reset_lookup(r, key, p[1], p[2])
RaceWrite == \E r \in Requests : reset_write(r)
RaceCommit == \E r \in Requests : reset_commit(r)

NextRace ==
    \/ startup_event
    \/ CreateMember
    \/ MemberForgot
    \/ RaceLookup
    \/ RaceWrite
    \/ RaceCommit
SpecRace == Init /\ [][NextRace]_vars

\* ---- visitors: anonymous and logged-in requests for pages, while the
\* administrator hides and shows the home page and adds a private page
ViewCookies == {NoCookie, JunkCookie} \cup {NumCookie(i) : i \in 1..MaxId}
GetFixedPage == \E c \in ViewCookies, op \in DOMAIN FixedRoutes : fixed_page(op, c)
GetPage == \E c \in ViewCookies, slug \in {Home, Calendar, <<"s">>, <<"t">>} : view_page(c, slug)
GetMembers == \E c \in ViewCookies : members(c, TRUE)
ShowHidePage == \E pub \in BOOLEAN : update_page(NumCookie(1), 1, Home, pub, <<>>)
PrivatePage == create_page(NumCookie(1), <<"s">>, FALSE)

NextView ==
    \/ startup_event
    \/ GetFixedPage
    \/ GetPage
    \/ GetMembers
    \/ ShowHidePage
    \/ PrivatePage
SpecView == Init /\ [][NextView]_vars

\* ---- the password policy: the function on its own, and the two forms it gates
PolicyChars == {"a", "Z", "1", "!"}
Pad(ch, n) == [i \in 1..n |-> ch]
\* passwords of 9, 10 and 11 characters around the length limit
PolicyPasswords ==
    {Pad("1", n) \o <<x, y, z>> : n \in 6..8, x \in PolicyChars, y \in PolicyChars,
                                  z \in PolicyChars} \cup {StrongPass, WeakPass, <<>>}
\* what the two forms are sent: strong, no upper case, too short, no lower case
GatePasswords == {StrongPass, WeakPass, SubSeq(StrongPass, 1, 9), Pad("Z", 10)}
CheckStrength ==
    \E p \in PolicyPasswords :
        /\ resp' = [op |-> "is_password_strong", password |-> p, status |-> 0,
                    error |-> "", result |-> is_password_strong(p)]
        /\ UNCHANGED <<up, inflight, users, pwds, resets, now, media>>
PolicyForgot == forgot_password(AdminEmail, AdminUser, 1, TRUE)
PolicyReset ==
    \E p \in GatePasswords, q \in {StrongPass, WeakPass} : reset_password(1, p, q)
PolicyChange ==
    \E c \in {NoCookie, NumCookie(1)}, cur \in {AdminPass, StrongPass},
       p \in GatePasswords, q \in {StrongPass, WeakPass} : change_password(c, cur, p, q)

NextPolicy ==
    \/ startup_event
    \/ CheckStrength
    \/ PolicyForgot
    \/ PolicyReset
    \/ PolicyChange
SpecPolicy == Init /\ [][NextPolicy]_vars

\* ---- a database file written by an earlier release: users, and no
\* credentials yet; membership_number is a nullable column without a check
LegacyRows ==
    {[id |-> 1, membership_number |-> <<"a">>, email |-> <<"A">>, is_admin |-> TRUE],
     [id |-> 2, membership_number |-> <<"A">>, email |-> NULL, is_admin |-> FALSE],
     [id |-> 3, membership_number |-> <<>>, email |-> <<"b">>, is_admin |-> FALSE],
     [id |-> 4, membership_number |-> NULL, email |-> <<"c">>, is_admin |-> FALSE]}
InitLegacy ==
    /\ up = FALSE
    /\ users \in SUBSET LegacyRows
    /\ pwds = {}
    /\ resets = {}
    /\ now = 0
    /\ pages = {}
    /\ files = OutsideFiles
    /\ uploaded = {}
    /\ settings = {}
    /\ inflight = [r \in Requests |-> Idle]
    /\ resp = [op |-> "none", status |-> 0, error |-> ""]
LegacyCookies == {NoCookie, JunkCookie} \cup {NumCookie(u.id) : u \in LegacyRows}
LegacyLogin ==
    \E username \in {<<"a">>, <<"b">>, <<"c">>, AdminUser},
       password \in {<<"a">>, <<"A">>, StrongPass} : login(username, password)
LegacyChange ==
    \E c \in LegacyCookies, cur \in {<<"a">>, StrongPass},
       new \in {StrongPass, WeakPass}, confirm \in {StrongPass, WeakPass} :
        change_password(c, cur, new, confirm)

NextLegacy ==
    \/ startup_event
    \/ LegacyLogin
    \/ LegacyChange
SpecLegacy == InitLegacy /\ [][NextLegacy]_vars

\* ---- restarts: the process starts again on a database that has been used
RestartDeletePage == \E id \in 1..MaxPageId : delete_page(NumCookie(1), id)
RestartHidePage == update_page(NumCookie(1), 1, Home, FALSE, <<>>)
RestartSetting == update_settings(NumCookie(1), {[key |-> "app_title", value |-> "x"]})
RestartChange == change_password(NumCookie(1), <<"a">>, StrongPass, StrongPass)

NextRestart ==
    \/ startup_event
    \/ RestartDeletePage
    \/ RestartHidePage
    \/ RestartSetting
    \/ RestartChange
SpecRestart == InitLegacy /\ [][NextRestart]_vars

\* ---- recovering an account: tokens, resets and the logins that follow
RecoverCreate ==
    \/ create_user(NumCookie(1), <<"a">>, <<"A">>, FALSE)
    \/ create_user(NumCookie(1), <<"A">>, NULL, FALSE)
RecoverForgot ==
    \E email \in {AdminEmail, <<"a">>}, mn \in {AdminUser, <<"a">>}, key \in Keys :
        forgot_password(email, mn, key, TRUE)
RecoverInputs ==
    {<<StrongPass, StrongPass>>, <<AdminPass, AdminPass>>, <<StrongPass, WeakPass>>,
     <<WeakPass, WeakPass>>}
RecoverReset == \E key \in Keys, p \in RecoverInputs : reset_password(key, p[1], p[2])
RecoverLogin ==
    \E username \in {AdminUser, <<"a">>, <<"A">>},
       password \in {AdminPass, StrongPass, <<"a">>} : login(username, password)

NextRecover ==
    \/ startup_event
    \/ RecoverCreate
    \/ RecoverForgot
    \/ RecoverReset
    \/ RecoverLogin
    \/ Tick
SpecRecover == Init /\ [][NextRecover]_vars

\* =================================================================== claims

\* the username names user u: it equals u's membership number or e-mail,
\* letter case aside
Identifies(username, u) ==
    \/ LowerEq(u.membership_number, username)
    \/ LowerEq(u.email, username)

\* the password that opens u's account: the stored one, or the membership
\* number while u has no credential
CorrectPassword(u, password) ==
    IF PwdByNumber(pwds, u.membership_number) = {}
    THEN password = u.membership_number
    ELSE \E p \in PwdByNumber(pwds, u.membership_number) :
            verify_password(password, p.password_hash)

\* C1: every POST /login that names an existing user U (by membership number
\* or e-mail, case-insensitively) with U's correct password sets the user_id
\* cookie to U's id; every other attempt sets no cookie and shows
\* 'Invalid credentials'.
C1_LoginContract ==
    [][resp'.op = "login" =>
         /\ \A u \in users :
               (Identifies(resp'.username, u) /\ CorrectPassword(u, resp'.password))
                   => resp'.cookie = u.id
         /\ (~\E u \in users :
               Identifies(resp'.username, u) /\ CorrectPassword(u, resp'.password))
                   => (resp'.cookie = 0 /\ resp'.error = "Invalid credentials")]_vars

InvalidKey == "Invalid or expired reset key."
IsResetRequest(r) == r.op \in {"reset_password", "reset_password_page"}
\* the new password of a POST passes the two checks made before the token is read
PasswordAccepted(r) ==
    r.new_password = r.confirm_password /\ is_password_strong(r.new_password)

\* C2 (as stated): once a POST /reset-password with key K has succeeded (the
\* token of K is marked used), every later POST or GET /reset-password with K
\* answers 'Invalid or expired reset key' and changes no credential.
C2_UsedKeyAlwaysInvalidKey ==
    [][(IsResetRequest(resp') /\ \E r \in resets : r.key = resp'.key /\ r.used)
          => (resp'.error = InvalidKey /\ pwds' = pwds)]_vars

\* C2 (amended): once the token of K is used, every later POST or GET with K
\* fails and changes no credential and no token; the message is 'Invalid or
\* expired reset key' for a GET and for a POST whose new password equals its
\* confirmation and is strong, and the password message otherwise.
C2_SingleUse ==
    [][(IsResetRequest(resp') /\ \E r \in resets : r.key = resp'.key /\ r.used)
          => /\ resp'.error # ""
             /\ pwds' = pwds /\ resets' = resets
             /\ (resp'.op = "reset_password_page" => resp'.error = InvalidKey)
             /\ (resp'.op = "reset_password" =>
                    (resp'.error = InvalidKey <=> PasswordAccepted(resp')))]_vars

\* a second, well-formed POST with a used but unexpired key was refused
C2_Witness ==
    /\ resp.op = "reset_password"
    /\ PasswordAccepted(resp)
    /\ resp.error = InvalidKey
    /\ \E r \in resets : r.key = resp.key /\ r.used /\ r.expires_at > now

\* the key of request r belongs to an unused token whose expiry has elapsed
KeyExpiredUnused(r) ==
    \E t \in resets : t.key = r.key /\ ~t.used /\ now >= t.expires_at

\* C3 (as stated): a POST /reset-password with an unused key at or past its
\* expires_at answers 'Invalid or expired reset key' and leaves the
\* credentials and the token as they were.
C3_ExpiredKeyAlwaysInvalidKey ==
    [][(resp'.op = "reset_password" /\ KeyExpiredUnused(resp'))
          => (resp'.error = InvalidKey /\ pwds' = pwds /\ resets' = resets)]_vars

\* C3 (amended): such a POST always fails and leaves every credential and
\* token unchanged; it answers 'Invalid or expired reset key' exactly when the
\* new password equals its confirmation and is strong, and the password
\* message otherwise.
C3_ExpiredKeyUnusable ==
    [][(resp'.op = "reset_password" /\ KeyExpiredUnused(resp'))
          => /\ resp'.error # ""
             /\ pwds' = pwds /\ resets' = resets
             /\ (resp'.error = InvalidKey <=> PasswordAccepted(resp'))]_vars

\* a well-formed POST arrived exactly at the expiry of an unused token of an
\* existing user and was refused
C3_Witness ==
    /\ resp.op = "reset_password"
    /\ PasswordAccepted(resp)
    /\ resp.error = InvalidKey
    /\ \E t \in resets : /\ t.key = resp.key /\ ~t.used /\ now = t.expires_at
                         /\ UserById(t.user_id) # {}

\* one of the failures the reset form names: unknown, expired or used key,
\* confirmation different, password weak
ResetMustFail(r) ==
    \/ r.new_password # r.confirm_password
    \/ ~is_password_strong(r.new_password)
    \/ ~\E t \in resets : t.key = r.key
    \/ \E t \in resets : t.key = r.key /\ (t.used \/ now >= t.expires_at)

\* C4: every failing POST /reset-password shows an error and leaves the user,
\* credential and token tables unchanged.
C4_FailedResetChangesNothing ==
    [][resp'.op = "reset_password" =>
         /\ ResetMustFail(resp') => resp'.error # ""
         /\ resp'.error # "" => (users' = users /\ pwds' = pwds /\ resets' = resets)]_vars

\* a POST with the valid key of an existing user was refused because its new
\* password is weak
C4_Witness ==
    /\ resp.op = "reset_password"
    /\ resp.new_password = resp.confirm_password
    /\ ~is_password_strong(resp.new_password)
    /\ resp.error # ""
    /\ \E t \in resets : /\ t.key = resp.key /\ ~t.used /\ t.expires_at > now
                         /\ UserById(t.user_id) # {}

\* an import request that got as far as reading the file
ImportByAdmin(r) ==
    /\ r.op = "import_users"
    /\ r.status = 200
Raises(file) == \E i \in 1..Len(file) : file[i].kind = "error"

\* C5: when processing a row of the file raises, the import is rolled back:
\* users and credentials are as before the request, and the error text is shown.
C5_ImportAllOrNothing ==
    [][ImportByAdmin(resp') =>
         /\ Raises(resp'.file) => resp'.error = "str(e)"
         /\ resp'.error # "" => (users' = users /\ pwds' = pwds)]_vars

\* the line after a row that had added a user made the reader raise
C5_Witness ==
    /\ ImportByAdmin(resp)
    /\ resp.error = "str(e)"
    /\ Len(resp.file) >= 2
    /\ resp.file[1].kind = "row"
    /\ ~RowSkipped(resp.file[1], users)
    /\ resp.file[2].kind = "error"

\* the membership numbers that two rows of the file carry and no user has
Duplicated(file, us) ==
    {mn \in {file[i].mn : i \in 1..Len(file)} :
        /\ Truthy(mn)
        /\ UserByNumber(us, mn) = {}
        /\ \E i, j \in 1..Len(file) : i < j /\ file[i].kind = "row"
                                      /\ file[j].kind = "row"
                                      /\ file[i].mn = mn /\ file[j].mn = mn}

FreeRows(file, mn, after) ==
    {i \in 1..Len(file) :
        /\ file[i].kind = "row" /\ file[i].mn = mn
        /\ \/ RowEmail(file[i]) = NULL
           \/ \A u \in after : u.email = RowEmail(file[i]) => u.membership_number = mn}

InMediaRoot(segs) == Below(segs, MEDIA_FOLDER)
\* where a submitted media path points on disk
Resolved(path) == normpath(PathJoin(MEDIA_FOLDER, path))

\* C7: GET /media/{path} serves, and the deleted_images of a page edit remove,
\* only files inside the media root; a path that resolves outside it is
\* answered 404, or skipped.
C7_MediaContainment ==
    [][/\ resp'.op = "get_media" =>
            /\ resp'.status = 200 => InMediaRoot(resp'.served)
            /\ ~InMediaRoot(Resolved(resp'.path)) => resp'.status = 404
       /\ resp'.op = "update_page" => \A f \in files \ files' : InMediaRoot(f)]_vars

\* GET /media/{path} would answer 200 with the files fs on disk
Served(fs, path) == PassesCheck(Resolved(path)) /\ Resolved(path) \in fs

\* C8: after an administrator deletes a page, its row is gone and every URL
\* upload-image returned for that page answers 404.
C8_DeletePageRemovesMedia ==
    [][(resp'.op = "delete_page" /\ resp'.location = "/admin/pages"
            /\ PageById(resp'.page_id) # {})
          => /\ \A p \in pages' : p.id # resp'.page_id
             /\ \A u \in uploaded : u.page = resp'.page_id => ~Served(files', u.url)]_vars

\* C9: no two users share a membership number, no two share a non-empty
\* e-mail, and no user's e-mail is the empty or a whitespace-only string.
C9_UserUniqueness ==
    /\ \A u, v \in users :
          (u # v) => /\ u.membership_number # v.membership_number
                     /\ (u.email # NULL => u.email # v.email)
    /\ \A u \in users : u.email = NULL \/ ~IsBlank(u.email)

\* a form that asked for an e-mail another user holds was turned down while
\* a user stored without e-mail exists
C9_Witness ==
    /\ resp.op \in {"create_user", "update_user"}
    /\ resp.error = "Email already exists"
    /\ Cardinality(users) >= 2
    /\ \E u \in users : u.email = NULL

\* C10: each user has at most one credential and each credential carries the
\* membership number of exactly one user; deleting a user deletes its
\* credential; editing a user's membership number moves the credential, hash
\* unchanged, to the new number.
C10_CredentialInvariant ==
    /\ [](/\ \A u \in users :
                Cardinality(PwdByNumber(pwds, u.membership_number)) <= 1
          /\ \A p \in pwds :
                Cardinality(UserByNumber(users, p.membership_number)) = 1)
    /\ [][/\ resp'.op = "delete_user" =>
               \A u \in users \ users' : PwdByNumber(pwds', u.membership_number) = {}
          /\ resp'.op = "update_user" =>
               \A u \in users, v \in users' :
                   (u.id = v.id /\ u.membership_number # v.membership_number) =>
                       /\ PwdByNumber(pwds', u.membership_number) = {}
                       /\ {p.password_hash : p \in PwdByNumber(pwds', v.membership_number)}
                            = {p.password_hash : p \in PwdByNumber(pwds, u.membership_number)}]_vars

\* a member was given another membership number and still has the credential
\* of the old one: the hash is that of a password set under the old number
C10_Witness ==
    /\ resp.op = "update_user"
    /\ resp.location = "/admin/users"
    /\ \E u \in users : \E p \in PwdByNumber(pwds, u.membership_number) :
          /\ u.membership_number # Member
          /\ p.password_hash = get_password_hash(Member)

\* the operations behind the /admin prefix, and those of them that answer JSON
AdminRoutes ==
    {"import_users", "create_page", "update_page", "delete_page", "create_user",
     "update_user", "delete_user", "update_settings", "upload_image",
     "edit_page", "get_page_content", "edit_user"} \cup AdminPages
JsonRoutes == {"upload_image", "get_page_content"}
\* the cookie names an existing user whose is_admin is set
Administrator(c) == c.kind = "num" /\ \E u \in users : u.id = c.n /\ u.is_admin
\* the cookie is absent or a number, so that it resolves to a user or to none
Resolves(c) == c.kind \in {"absent", "num"}

\* C11: an admin route asked for by a request that resolves to no user, or to
\* a user who is not an administrator, leaves the tables and the media tree
\* as they were and answers with a redirect to "/", or 403 on the JSON routes.
C11_AdminAuthorization ==
    [][(/\ resp'.op \in AdminRoutes
        /\ Resolves(resp'.cookie)
        /\ ~Administrator(resp'.cookie))
          => /\ UNCHANGED <<users, pwds, resets, pages, files, settings>>
             /\ IF resp'.op \in JsonRoutes THEN resp'.status = 403
                ELSE resp'.status = 303 /\ resp'.location = "/"]_vars

\* an existing member who is no administrator asked to delete an existing
\* page, and was sent home
C11_Witness ==
    /\ resp.op = "delete_page"
    /\ resp.cookie.kind = "num"
    /\ \E u \in users : u.id = resp.cookie.n /\ ~u.is_admin
    /\ PageById(resp.page_id) # {}
    /\ resp.status = 303 /\ resp.location = "/"

\* the policy as the specification words it
HasLower(p) == {i \in DOMAIN p : p[i] \in {LowerAlpha[k] : k \in 1..26}} # {}
HasUpper(p) == {i \in DOMAIN p : p[i] \in {UpperAlpha[k] : k \in 1..26}} # {}
Policy(p) == Len(p) >= 10 /\ HasLower(p) /\ HasUpper(p)
StrengthMessage ==
    "Password must be at least 10 characters long and contain both upper and lower case letters."
\* a reset or a change of password that got as far as the strength test
ReachedPolicy(r) ==
    /\ r.op \in {"reset_password", "change_password"}
    /\ r.status = 200
    /\ r.new_password = r.confirm_password

\* C12: is_password_strong(p) is true exactly when p has ten characters or
\* more, a lower-case and an upper-case ASCII letter; 'abcdefghi1' fails and
\* 'Abcdefghij' passes; reset-password and change-password refuse a new
\* password with the strength message exactly when it fails this test.
C12_PasswordPolicy ==
    [][/\ resp'.op = "is_password_strong" => (resp'.result <=> Policy(resp'.password))
       /\ ~is_password_strong(WeakPass) /\ is_password_strong(StrongPass)
       /\ ReachedPolicy(resp') =>
            ((resp'.error = StrengthMessage) <=> ~Policy(resp'.new_password))]_vars

\* the administrator changed the password to one without a digit or symbol
C12_Witness ==
    /\ resp.op = "change_password"
    /\ resp.new_password = StrongPass
    /\ resp.error = ""
    /\ \E p \in pwds : p.password_hash = get_password_hash(StrongPass)

\* C13: whatever the user_id cookie holds, resolving it does not fail: GET
\* /change-password shows the form to the user the cookie names and sends
\* everybody else, a malformed cookie included, to /login.
C13_IdentityNeverFails ==
    [][resp'.op = "change_password_page" =>
          IF resp'.cookie.kind = "num" /\ UserById(resp'.cookie.n) # {}
          THEN resp'.status = 200
          ELSE resp'.status = 303 /\ resp'.location = "/login"]_vars

\* the user a cookie names, before the request is served
Requester(c) == IF c.kind = "num" THEN {u \in users : u.id = c.n} ELSE {}
\* the three conditions of a change of password, for requester u
ChangeAllowed(r, u) ==
    /\ \E p \in pwds : /\ p.membership_number = u.membership_number
                       /\ p.password_hash = get_password_hash(r.current_password)
    /\ r.new_password = r.confirm_password
    /\ Policy(r.new_password)

\* C14: POST /change-password gives the requesting user's credential the new
\* password when the current password matches the stored hash, the new one
\* equals its confirmation and is strong; in every other case, an anonymous
\* request and a user without credential included, no credential changes;
\* and no other user's credential ever changes.
C14_ChangePassword ==
    [][resp'.op = "change_password" =>
          IF \E u \in Requester(resp'.cookie) : ChangeAllowed(resp', u)
          THEN \E u \in Requester(resp'.cookie) :
                 pwds' = {q \in pwds : q.membership_number # u.membership_number}
                           \cup {[membership_number |-> u.membership_number,
                                  password_hash |-> get_password_hash(resp'.new_password)]}
          ELSE pwds' = pwds]_vars

\* a member's password was changed while another user holds a credential too
C14_Witness ==
    /\ resp.op = "change_password"
    /\ resp.error = "" /\ resp.status = 200
    /\ \E u \in Requester(resp.cookie), p \in pwds :
         /\ p.membership_number = u.membership_number
         /\ p.password_hash = get_password_hash(resp.new_password)
         /\ p.password_hash # get_password_hash(u.membership_number)
    /\ Cardinality(pwds) >= 2

\* the users a forgot-password form names: e-mail, letter case aside, and
\* membership number of one and the same user
Named(r) ==
    {u \in users : /\ u.email # NULL
                   /\ Lower(u.email) = Lower(r.email)
                   /\ u.membership_number = r.membership_number}
KeysInUse == {t.key : t \in resets}

\* C15: POST /forgot-password adds a token exactly when e-mail and membership
\* number are those of one user: linked to that user, unused, expiring one
\* hour later, stored whether or not the e-mail goes out, next to the earlier
\* tokens, which stay as they are; any other request adds none. (The request
\* fails, adding nothing, only if the random key is one already in use.)
C15_ForgotPassword ==
    [][resp'.op = "forgot_password" =>
          IF Named(resp') # {} /\ resp'.key \notin KeysInUse
          THEN /\ resp'.status = 200
               /\ \E u \in Named(resp') :
                    resets' = resets \cup {[key |-> resp'.key, user_id |-> u.id,
                                            expires_at |-> now + HOUR, used |-> FALSE]}
               /\ resets' # resets
          ELSE /\ resets' = resets
               /\ resp'.status = 500 <=> Named(resp') # {}]_vars

\* a user holds two unused tokens, the second stored though its e-mail failed
C15_Witness ==
    /\ resp.op = "forgot_password"
    /\ resp.error = "Could not send reset email. Please contact an administrator."
    /\ \E t, v \in resets :
         /\ t # v /\ t.user_id = v.user_id
         /\ ~t.used /\ ~v.used
         /\ t.key = resp.key

\* the tokens a reset form's key can still be used with, and their users
UsableTokens(r) ==
    {t \in resets : t.key = r.key /\ ~t.used /\ t.expires_at > now}
TokenUsers(r) == {u \in users : \E t \in UsableTokens(r) : t.user_id = u.id}
\* a reset that the claim calls successful
ResetSucceeds(r) ==
    /\ TokenUsers(r) # {}
    /\ r.new_password = r.confirm_password
    /\ Policy(r.new_password)
\* the tables after the reset: the user's credential holds the new password,
\* the token is used, the rest is as before
ResetWritten(r) ==
    \E t \in UsableTokens(r), u \in users :
        /\ t.user_id = u.id
        /\ pwds' = {q \in pwds : q.membership_number # u.membership_number}
                     \cup {[membership_number |-> u.membership_number,
                            password_hash |-> get_password_hash(r.new_password)]}
        /\ resets' = (resets \ {t}) \cup {[t EXCEPT !.used = TRUE]}
\* the step is a login, right after a successful reset, under a name of the
\* user whose password was reset
LoginAfterReset(u) ==
    /\ resp.op = "reset_password" /\ resp.error = ""
    /\ resp'.op = "login"
    /\ u.id = resp.user_id
    /\ Identifies(resp'.username, u)

C17_NoSelfDelete ==
    [][resp'.op = "delete_user" =>
          /\ \A u \in Requester(resp'.cookie) : u \in users'
          /\ (Administrator(resp'.cookie) /\ resp'.cookie.n = resp'.user_id)
               => UNCHANGED <<users, pwds>>]_vars

\* an administrator asked for the deletion of the own account, next to
\* another user, and both are still there
C17_Witness ==
    /\ resp.op = "delete_user"
    /\ resp.cookie.kind = "num" /\ resp.cookie.n = resp.user_id
    /\ resp.status = 303 /\ resp.location = "/admin/users"
    /\ \E u \in users : u.id = resp.user_id /\ u.is_admin
    /\ Cardinality(users) >= 2

\* a form's e-mail as the handlers compare it: blank counts as none
Submitted(email) == IF email = NULL \/ IsBlank(email) THEN NULL ELSE email
\* the submitted number or e-mail belongs to a user other than user_id
TakenByOther(r) ==
    \E u \in users :
        /\ u.id # r.user_id
        /\ \/ u.membership_number = r.membership_number
           \/ Submitted(r.email) # NULL /\ u.email = Submitted(r.email)
\* the submitted slug belongs to a page other than page_id
SlugTakenByOther(r) == \E q \in pages : q.id # r.page_id /\ q.slug = r.slug
\* the form came back with a message, and nothing was written
Rejected(r) == r.status = 200 /\ r.error # ""

\* C18: an administrator's form with a unique key that is already taken comes
\* back re-rendered with a message and changes nothing: membership number or
\* e-mail on create-user and edit-user, slug on create-page and edit-page.
C18_DuplicateKeyRejected ==
    [][(resp'.op \in {"create_user", "update_user", "create_page", "update_page"}
          /\ Administrator(resp'.cookie)) =>
          /\ (resp'.op = "create_user" /\ TakenByOther(resp'))
               => Rejected(resp') /\ UNCHANGED <<users, pwds>>
          /\ (resp'.op = "update_user" /\ UserById(resp'.user_id) # {}
                /\ TakenByOther(resp'))
               => Rejected(resp') /\ UNCHANGED <<users, pwds>>
          /\ (resp'.op = "create_page" /\ SlugTakenByOther(resp'))
               => Rejected(resp') /\ UNCHANGED <<pages, files>>
          /\ (resp'.op = "update_page" /\ PageById(resp'.page_id) # {}
                /\ SlugTakenByOther(resp'))
               => Rejected(resp') /\ UNCHANGED <<pages, files>>]_vars

\* the users a login name matches, and whether one holds a credential
Matched(r) == {u \in users : Identifies(r.username, u)}
HasCredential(ps, u) == \E p \in ps : p.membership_number = u.membership_number

\* C19: when the user a login matches has no stored credential, the login
\* stores one whose password is the membership number and succeeds exactly
\* when the submitted password equals the membership number; so after a
\* login attempt for an existing user, that user has a credential.
C19_LazyCredential ==
    [][(resp'.op = "login" /\ Matched(resp') # {}) =>
          \E u \in Matched(resp') :
             /\ HasCredential(pwds', u)
             /\ ~HasCredential(pwds, u) =>
                  /\ pwds' = pwds \cup
                       {[membership_number |-> u.membership_number,
                         password_hash |-> get_password_hash(u.membership_number)]}
                  /\ resp'.cookie = u.id <=> resp'.password = u.membership_number
                  /\ resp'.cookie \in {0, u.id}]_vars

\* the rows of the file, as the import leaves them: created is users' \ users
RowsKept(file, before, after) ==
    \A u \in after \ before :
       /\ u.is_admin = FALSE
       /\ Truthy(u.membership_number)
       /\ UserByNumber(before, u.membership_number) = {}
       /\ Cardinality(UserByNumber(after, u.membership_number)) = 1
       /\ \E i \in 1..Len(file) : /\ file[i].mn = u.membership_number
                                  /\ u.email = Submitted(file[i].email)
       /\ u.email # NULL => \A v \in after : v.email = u.email => v = u
RowsSkipped(file, after) ==
    \A i \in 1..Len(file) :
       \/ ~Truthy(file[i].mn)
       \/ UserByNumber(after, file[i].mn) # {}
       \/ /\ Submitted(file[i].email) # NULL
          /\ \E v \in after : /\ v.email = Submitted(file[i].email)
                              /\ v.membership_number # file[i].mn

KeysOf(ss) == {x.key : x \in ss}
\* what the settings form says about the settings that exist
SettingsEdited(form, before, after, keys) ==
    \A x \in before :
       IF x.key \in KeysOf(form) \cap keys
       THEN [key |-> x.key, value |-> FormValue(form, x.key)] \in after
       ELSE x \in after
\* what it says about the settings that appear
SettingsCreated(form, before, after) ==
    LET new_key == FormGet(form, "new_key")
        new_value == FormGet(form, "new_value")
    IN  after \ [key : KeysOf(before), value : {y.value : y \in after}] =
           IF new_key # "" /\ new_value # "" /\ new_key \notin KeysOf(before)
           THEN {[key |-> new_key, value |-> new_value]} ELSE {}

\* C21: POST /admin/settings by an administrator gives every existing setting
\* whose key is in the form the submitted value, leaves the other settings as
\* they are, and adds the pair new_key/new_value, and nothing else, when both
\* are non-empty and new_key is not a key yet.
C21_SettingsUpdate ==
    [][(resp'.op = "update_settings" /\ Administrator(resp'.cookie)) =>
         /\ KeysOf(settings) \subseteq KeysOf(settings')
         /\ SettingsEdited(resp'.form, settings, settings', KeysOf(resp'.form))
         /\ SettingsCreated(resp'.form, settings, settings')]_vars

\* the subdirectory the upload is to use: only letters, digits, "-" and "_"
\* of the slug, and "general" when none is left
SanitizedDir(slug) ==
    IF KeepSafe(Strip(slug)) = <<>> THEN General ELSE KeepSafe(Strip(slug))

\* C22: an upload the administrator gets answered writes the file to
\* <media root>/<dir>/<name>, <dir> being the sanitized slug ("general" when
\* nothing is left of it) and <name> the file name with "_" for spaces and no
\* directory part; nothing else on disk changes and the URL is <dir>/<name>
\* under /media/.
C22_UploadSanitized ==
    [][(resp'.op = "upload_image" /\ resp'.status = 200) =>
         LET dir == SanitizedDir(resp'.slug)
             name == SafeFilename(resp'.filename)
         IN  /\ \A i \in 1..Len(dir) : IsAlnumChar(dir[i]) \/ dir[i] \in {"-", "_"}
             /\ \A i \in 1..Len(name) : name[i] \notin {" ", "/"}
             /\ files' = files \cup {MEDIA_FOLDER \o <<dir, name>>}
             /\ resp'.url = dir \o <<"/">> \o name]_vars

\* routes that answer a request without a user with a redirect to /login
SessionRoutes == {"change_password_page", "members"}
\* the user whose id the cookie carries
Carried(c, us) == {u \in us : c.kind = "num" /\ u.id = c.n}

\* C23: the id login puts in the cookie is the id of the user who logged in;
\* /logout changes nothing on the server; and a request whose cookie carries
\* the id of an existing user is answered as that user's, never sent to
\* /login, whatever happened to the user's password or admin flag before and
\* whether or not a login issued the id.
C23_SessionsNeverExpire ==
    [][/\ (resp'.op = "login" /\ resp'.cookie # 0) =>
             \E u \in users' : /\ u.id = resp'.cookie
                               /\ Carried(NumCookie(resp'.cookie), users') = {u}
       /\ resp'.op = "logout" => UNCHANGED <<users, pwds, resets, media>>
       /\ (resp'.op \in SessionRoutes /\ Carried(resp'.cookie, users) # {}) =>
             /\ resp'.location # "/login"
             /\ resp'.op = "change_password_page" => resp'.status = 200]_vars

\* the member, promoted and with a changed password, is still recognised by
\* the id in the cookie
C23_Witness ==
    /\ resp.op = "change_password_page"
    /\ resp.status = 200
    /\ resp.cookie = NumCookie(2)
    /\ \E u \in users :
          /\ u.id = 2
          /\ u.is_admin
          /\ PwdByNumber(pwds, u.membership_number) =
                {[membership_number |-> u.membership_number,
                  password_hash |-> get_password_hash(AdminPass)]}

\* C24: a token row is never removed and its key, user and expiry never
\* change; a row appears only in forgot-password, unused and expiring an hour
\* later; used goes from false to true only, in a reset with the row's key that
\* succeeds; and GET /reset-password accepts a key exactly when a row with it
\* is unused and the time is before its expires_at.
C24_TokenLifecycle ==
    [][/\ \A r \in resets :
             \/ r \in resets'
             \/ /\ r.used = FALSE
                /\ [r EXCEPT !.used = TRUE] \in resets'
                /\ resp'.op = "reset_password" /\ resp'.key = r.key /\ resp'.error = ""
       /\ \A r \in resets' :
             (\A q \in resets : q.key # r.key) =>
                /\ resp'.op = "forgot_password" /\ resp'.key = r.key
                /\ r.used = FALSE /\ r.expires_at = now + HOUR
       /\ resp'.op # "forgot_password" => Cardinality(resets') = Cardinality(resets)
       /\ resp'.op = "reset_password_page" =>
             (resp'.error = "" <=>
                 \E r \in resets : r.key = resp'.key /\ r.used = FALSE /\ now < r.expires_at)]_vars

\* a token was consumed, its user was deleted afterwards, and the row is
\* still there
C24_Witness ==
    /\ resp.op = "delete_user"
    /\ \E r \in resets : r.used /\ UserById(r.user_id) = {}
    /\ \E r \in resets : ~r.used

\* the media subdirectory that carries the name of a page's slug
MediaDirOf(page) == MEDIA_FOLDER \o <<page.slug>>

\* C25: when an administrator deletes a page, the row of that page goes and
\* no other; the files removed lie in the media subdirectory named by its
\* slug; the files in the subdirectory of every other page stay; deleting an
\* id that no page has changes nothing.
C25_DeletePageFrame ==
    [][(resp'.op = "delete_page" /\ Administrator(resp'.cookie)) =>
         IF PageById(resp'.page_id) = {}
         THEN UNCHANGED <<pages, files, uploaded>>
         ELSE /\ pages' = pages \ PageById(resp'.page_id)
              /\ \A f \in files \ files' :
                    \E p \in PageById(resp'.page_id) : Below(f, MediaDirOf(p))
              /\ \A q \in pages', f \in files : Below(f, MediaDirOf(q)) => f \in files']_vars

\* the rows startup puts into empty tables
FirstPages == DefaultPages({})
FirstSettings == DefaultSettings({})
FirstAdmin == [id |-> 1, membership_number |-> AdminUser, email |-> AdminEmail,
               is_admin |-> TRUE]
\* the credential whose password is the user's membership number
OwnNumber(u) == [membership_number |-> u.membership_number,
                 password_hash |-> get_password_hash(u.membership_number)]

\* what startup does to pages, settings and users, and that a second startup
\* right after the first changes nothing
StartupFrame ==
    /\ pages \subseteq pages' /\ settings \subseteq settings'
    /\ users \subseteq users' /\ pwds \subseteq pwds'
    /\ {p.slug : p \in pages' \ pages} = {p.slug : p \in FirstPages} \ {p.slug : p \in pages}
    /\ \A p \in pages' \ pages : \E d \in FirstPages : d.slug = p.slug /\ d.is_public = p.is_public
    /\ settings' \ settings = {d \in FirstSettings : \A x \in settings : x.key # d.key}
    /\ users' \ users = IF users = {} THEN {FirstAdmin} ELSE {}
    /\ resp.op = "startup" => UNCHANGED <<pages, settings, users, pwds>>

\* C26 (as stated): startup adds the default pages and settings that are
\* missing, the default administrator when there is no user, and a credential
\* with the membership number as password for every user lacking one; it
\* changes and removes no row, and a second startup changes nothing.
C26_StartupIdempotent ==
    [][resp'.op = "startup" =>
         /\ StartupFrame
         /\ \A u \in users : PwdByNumber(pwds, u.membership_number) = {} => OwnNumber(u) \in pwds'
         /\ pwds' \ pwds \subseteq
               {OwnNumber(u) : u \in users} \cup
               {[membership_number |-> AdminUser, password_hash |-> get_password_hash(AdminPass)]}]_vars

\* C26 (amended): the same, the credential being added for every user that
\* lacks one and has a non-empty membership number; a user without a
\* membership number gets none.
C26_StartupIdempotentNumbered ==
    [][resp'.op = "startup" =>
         /\ StartupFrame
         /\ \A u \in users :
               PwdByNumber(pwds, u.membership_number) = {} =>
                  IF u.membership_number \in {NULL, <<>>}
                  THEN PwdByNumber(pwds', u.membership_number) = {}
                  ELSE OwnNumber(u) \in pwds'
         /\ users = {} => [membership_number |-> AdminUser,
                           password_hash |-> get_password_hash(AdminPass)] \in pwds'
         /\ pwds' \ pwds \subseteq
               {OwnNumber(u) : u \in users} \cup
               {[membership_number |-> AdminUser, password_hash |-> get_password_hash(AdminPass)]}]_vars

\* a restart put back the deleted home page and kept the changed title, the
\* changed password and the user without a membership number
C26_Witness ==
    /\ resp.op = "startup"
    /\ \E p \in pages : p.slug = Home /\ p.id > Cardinality(FirstPages)
    /\ [key |-> "app_title", value |-> "x"] \in settings
    /\ [membership_number |-> <<"a">>, password_hash |-> get_password_hash(StrongPass)] \in pwds
    /\ OwnNumber([membership_number |-> <<"A">>]) \in pwds
    /\ \E u \in users : u.membership_number = NULL

\* the credentials a step adds, removes or rewrites
Touched == (pwds' \ pwds) \cup (pwds \ pwds')

\* C27: every token was issued to the member numbered "a" (no other user
\* asks for one). A reset changes the credential of that member and of nobody
\* else, and when no user has that number any more it changes neither a
\* credential nor a token and answers "User not found.".
C27_TokenBoundToUser ==
    [][resp'.op = "reset_password" =>
         /\ \A p \in Touched : p.membership_number = Member
         /\ (UserByNumber(users, Member) = {} /\ ValidResets(resp'.key) # {}
               /\ resp'.new_password = resp'.confirm_password
               /\ resp'.new_password = StrongPass) =>
              /\ UNCHANGED <<pwds, resets>>
              /\ resp'.error = "User not found."]_vars

\* the answers to a form that fails the checks made before the key is read
FormErrors ==
    {"Passwords do not match.",
     "Password must be at least 10 characters long and contain both upper and lower case letters."}

\* C28: of two finished reset requests that carried the same key and passed
\* the form checks, at most one reports success, and then the other one
\* reports an invalid or expired key.
C28_SingleUseConcurrent ==
    \A a, b \in Requests :
       (/\ a # b
        /\ inflight[a].pc = "done" /\ inflight[b].pc = "done"
        /\ inflight[a].key = inflight[b].key
        /\ inflight[a].error = ""
        /\ inflight[b].error \notin FormErrors)
          => inflight[b].error = "Invalid or expired reset key."

\* the routes that render the content of a page
PageRoutes == {"home", "about", "calendar", "view_page"}
\* the request comes with no cookie, or with the id of no user
Anonymous(c) == c.kind \in {"absent", "num"} /\ Carried(c, users) = {}

\* C29: a request that resolves to no user is redirected to /login by every
\* route that renders a page, when the page asked for is not public, and by
\* /members; no page content is rendered for it; a slug without a page gets
\* 404.
C29_PrivateContent ==
    [][/\ (resp'.op \in PageRoutes /\ Anonymous(resp'.cookie)) =>
             /\ (\E p \in pages : p.slug = resp'.slug /\ ~p.is_public) =>
                   (resp'.status = 303 /\ resp'.location = "/login")
             /\ \A p \in resp'.page : p.is_public
       /\ (resp'.op = "view_page" /\ resp'.cookie.kind # "junk"
              /\ \A p \in pages : p.slug # resp'.slug) => resp'.status = 404
       /\ (resp'.op = "members" /\ Anonymous(resp'.cookie)) =>
             (resp'.status = 303 /\ resp'.location = "/login")]_vars

====
